---- MODULE Spec2Model ----
(***************************************************************************)
(* A model of backend_p: the route layer (api_routes.py), the gateways     *)
(* (services.py) and the transformations (utils.py).                       *)
(*                                                                         *)
(* The backend owns no state between requests. A request context is the    *)
(* five variables endpoint, pc, req, calls, resp: an operation is accepted *)
(* when pc = "idle", runs through its suspension points (the awaited calls *)
(* to the image host and the mail relay, the background task that runs     *)
(* after the response) and ends in pc = "done"; Finish drops the finished  *)
(* request. Spec follows one request at a time. StoreSpec follows the      *)
(* endpoints around the record store over a sequence of requests, and      *)
(* ConcurrentSpec two requests in flight, the second one held in `other`.  *)
(*                                                                         *)
(* Python strings are sequences of one-character strings, so that split,   *)
(* strip, lower, `in` and re.match are computed on characters.             *)
(***************************************************************************)
EXTENDS Integers, Sequences, FiniteSets, TLC

VARIABLES
    endpoint,   \* the operation in progress ("none" when idle)
    pc,         \* "idle", "upstream", "relay", "background", "done"
    req,        \* what the operation was called with and what it read
    calls,      \* the calls to external services issued so far, in order
    resp,       \* the response handed to the caller (NoResponse before that)
    store,      \* the insert attempts the record store has received, in order
    bookings,   \* how many bookings POST /api/book-event has accepted so far
    other       \* the context of a second request in flight, suspended

vars == <<endpoint, pc, req, calls, resp, store, bookings, other>>

(***************************************************************************)
(* Bounds of the model.                                                    *)
(***************************************************************************)
MaxPieces == 3      \* pieces a drive URL is assembled from
MaxIdLen == 3       \* characters of an image file id
MaxRows == 2        \* rows of a worksheet
MaxInserts == 2     \* insert attempts the record store receives
MaxBookings == 2    \* bookings accepted
MaxTagLen == 4      \* characters of a tag field

(***************************************************************************)
(* Strings.                                                                *)
(***************************************************************************)
\* s[i..] starts with sub
StartsAt(s, sub, i) ==
    /\ i + Len(sub) - 1 <= Len(s)
    /\ SubSeq(s, i, i + Len(sub) - 1) = sub

\* index of the first occurrence of sub in s, 0 when there is none (str.find + 1)
Find(s, sub) ==
    IF \E i \in 1..Len(s) : StartsAt(s, sub, i)
    THEN CHOOSE i \in 1..Len(s) :
            StartsAt(s, sub, i) /\ \A j \in 1..(i - 1) : ~StartsAt(s, sub, j)
    ELSE 0

\* `sub in s`
Contains(s, sub) == Find(s, sub) # 0

\* s.split(sub)[0]: s up to the first sub, all of s when there is none
SplitFirst(s, sub) ==
    IF Contains(s, sub) THEN SubSeq(s, 1, Find(s, sub) - 1) ELSE s

\* what follows the first sub in s (s contains sub)
AfterFirst(s, sub) == SubSeq(s, Find(s, sub) + Len(sub), Len(s))

\* s.split(sub)[1], for s that contains sub: between the first and the second sub
SplitSecond(s, sub) == SplitFirst(AfterFirst(s, sub), sub)

RECURSIVE Concat(_)
Concat(ss) == IF ss = <<>> THEN <<>> ELSE Head(ss) \o Concat(Tail(ss))

\* the sequences over S of length lo..hi
SeqsOf(S, lo, hi) == UNION {[1..n -> S] : n \in lo..hi}

LowerCase == {"a", "b", "c", "d", "e", "f", "g", "h", "i", "j", "k", "l", "m",
              "n", "o", "p", "q", "r", "s", "t", "u", "v", "w", "x", "y", "z"}
UpperCase == {"A", "B", "C", "D", "E", "F", "G", "H", "I", "J", "K", "L", "M",
              "N", "O", "P", "Q", "R", "S", "T", "U", "V", "W", "X", "Y", "Z"}
Digits == {"0", "1", "2", "3", "4", "5", "6", "7", "8", "9"}

FILE_D == <<"/", "f", "i", "l", "e", "/", "d", "/">>
ID_EQ == <<"i", "d", "=">>
AMP == <<"&">>
SLASH == <<"/">>
DRIVE_HOST == <<"d", "r", "i", "v", "e", ".", "g", "o", "o", "g", "l", "e", ".", "c", "o", "m">>
DIRECT_VIEW == <<"h", "t", "t", "p", "s", ":", "/", "/", "d", "r", "i", "v", "e", ".",
                 "g", "o", "o", "g", "l", "e", ".", "c", "o", "m", "/", "u", "c", "?",
                 "e", "x", "p", "o", "r", "t", "=", "v", "i", "e", "w", "&", "i", "d", "=">>

(***************************************************************************)
(* utils.convert_google_drive_link                                         *)
(***************************************************************************)
convert_google_drive_link(drive_url) ==
    IF Contains(drive_url, FILE_D)
    THEN DIRECT_VIEW \o SplitFirst(SplitSecond(drive_url, FILE_D), SLASH)
    ELSE IF Contains(drive_url, ID_EQ)
         THEN DIRECT_VIEW \o SplitFirst(SplitSecond(drive_url, ID_EQ), AMP)
         ELSE drive_url

\* the pieces the explored URLs are assembled from
UrlPieces ==
    { FILE_D, ID_EQ, AMP, SLASH, <<"a">>, <<"b">>, DIRECT_VIEW,
      <<"h", "t", "t", "p", "s", ":", "/", "/">> \o DRIVE_HOST }

DriveUrls == {Concat(ps) : ps \in SeqsOf(UrlPieces, 0, MaxPieces)}

(***************************************************************************)
(* Python values as the spreadsheet rows and JSON bodies carry them: a     *)
(* string, an integer, None, or (for a key of a dict) no value at all.     *)
(***************************************************************************)
StrVal(s) == [t |-> "str", s |-> s, n |-> 0]
IntVal(n) == [t |-> "int", s |-> <<>>, n |-> n]
None == [t |-> "none", s |-> <<>>, n |-> 0]
Absent == [t |-> "absent", s |-> <<>>, n |-> 0]

\* d.get(key): None for a key the dict does not hold
Get(d, key) == IF d[key].t = "absent" THEN None ELSE d[key]
\* d.get(key, default)
GetD(d, key, default) == IF d[key].t = "absent" THEN default ELSE d[key]

\* bool(v)
Truthy(v) ==
    CASE v.t = "str" -> v.s # <<>>
      [] v.t = "int" -> v.n # 0
      [] OTHER -> FALSE

Whitespace == {" ", "\t", "\n", "\r"}

\* str.strip()
RECURSIVE LStrip(_)
LStrip(s) == IF s # <<>> /\ Head(s) \in Whitespace THEN LStrip(Tail(s)) ELSE s
RECURSIVE RStrip(_)
RStrip(s) ==
    IF s # <<>> /\ s[Len(s)] \in Whitespace THEN RStrip(SubSeq(s, 1, Len(s) - 1)) ELSE s
Strip(s) == RStrip(LStrip(s))

\* str.lower() on the letters A-Z
LowerOf(c) ==
    CASE c = "A" -> "a" [] c = "B" -> "b" [] c = "C" -> "c" [] c = "D" -> "d"
      [] c = "E" -> "e" [] c = "F" -> "f" [] c = "G" -> "g" [] c = "H" -> "h"
      [] c = "I" -> "i" [] c = "J" -> "j" [] c = "K" -> "k" [] c = "L" -> "l"
      [] c = "M" -> "m" [] c = "N" -> "n" [] c = "O" -> "o" [] c = "P" -> "p"
      [] c = "Q" -> "q" [] c = "R" -> "r" [] c = "S" -> "s" [] c = "T" -> "t"
      [] c = "U" -> "u" [] c = "V" -> "v" [] c = "W" -> "w" [] c = "X" -> "x"
      [] c = "Y" -> "y" [] c = "Z" -> "z" [] OTHER -> c
Lower(s) == [i \in 1..Len(s) |-> LowerOf(s[i])]

\* s.split(sep): the pieces of s between the occurrences of sep
RECURSIVE Split(_, _)
Split(s, sep) ==
    IF Contains(s, sep)
    THEN <<SplitFirst(s, sep)>> \o Split(AfterFirst(s, sep), sep)
    ELSE <<s>>

\* the value of a run of decimal digits
RECURSIVE DigitsValue(_)
DigitsValue(s) ==
    IF s = <<>> THEN 0
    ELSE 10 * DigitsValue(SubSeq(s, 1, Len(s) - 1))
         + (CHOOSE d \in 0..9 : <<"0", "1", "2", "3", "4", "5", "6", "7", "8", "9">>[d + 1] = s[Len(s)])

IsDigits(s) == s # <<>> /\ \A i \in 1..Len(s) : s[i] \in Digits

\* int(v): [raised, value]. A string is stripped and may carry a sign.
PyInt(v) ==
    IF v.t = "int" THEN [raised |-> FALSE, value |-> v.n]
    ELSE IF v.t # "str" THEN [raised |-> TRUE, value |-> 0]
    ELSE LET body == Strip(v.s)
             neg == body # <<>> /\ Head(body) = "-"
             digits == IF body # <<>> /\ Head(body) \in {"-", "+"} THEN Tail(body) ELSE body
         IN IF IsDigits(digits)
            THEN [raised |-> FALSE,
                  value |-> IF neg THEN 0 - DigitsValue(digits) ELSE DigitsValue(digits)]
            ELSE [raised |-> TRUE, value |-> 0]

(***************************************************************************)
(* utils.get_google_sheets_credentials                                     *)
(***************************************************************************)
\* The process environment as the loader reads it: the JSON blob (not set,
\* set to the empty string, set to text that does not parse, set to text that
\* parses) and each of the three required individual variables (not set, set
\* to the empty string, set to a value).
RequiredFields == {"project_id", "private_key", "client_email"}
CredentialEnvs ==
    [blob : {"absent", "empty", "invalid", "json"},
     fields : [RequiredFields -> {"absent", "empty", "set"}]]

\* a loader that applies the check of the required fields to the blob too
get_google_sheets_credentials_checking_blob(env) ==
    IF env.fields # [field \in RequiredFields |-> "set"]
    THEN [t |-> "none", from |-> "none", read |-> RequiredFields, checked |-> TRUE]
    ELSE IF env.blob = "json"
         THEN [t |-> "info", from |-> "blob", read |-> RequiredFields, checked |-> TRUE]
         ELSE [t |-> "info", from |-> "fields", read |-> RequiredFields, checked |-> TRUE]

\* the bundle (by where it comes from) or None, the required variables read
\* from the environment on the way, and whether the check of the required
\* fields was run. The ValueError of a failed check is caught in the function.
get_google_sheets_credentials(env) ==
    IF env.blob = "json"
    THEN [t |-> "info", from |-> "blob", read |-> {}, checked |-> FALSE]
    ELSE IF \A field \in RequiredFields : env.fields[field] = "set"
         THEN [t |-> "info", from |-> "fields", read |-> RequiredFields, checked |-> TRUE]
         ELSE [t |-> "none", from |-> "none", read |-> RequiredFields, checked |-> TRUE]

(***************************************************************************)
(* utils.get_hardcoded_menu and utils.get_hardcoded_events. No code reads  *)
(* the items of the fallback menu, so each is given by its id, name,       *)
(* price, image and tags as written in the source (the description and the *)
(* historical note are left out). The fallback events carry their id,      *)
(* date, image and capacity as Python values, since get_event reads them.  *)
(***************************************************************************)
HardcodedCafes ==
    << [id |-> "b1", name |-> "Chuflay de arándanos", price |-> "39 Bs",
        image |-> "/menu/cafes_bebidas/chuflay_arandanos.jpg",
        tags |-> <<"Coctelería">>],
       [id |-> "b2", name |-> "DS 21060", price |-> "42 Bs",
        image |-> "/menu/cafes_bebidas/ds_21060.jpg",
        tags |-> <<"Cocteleria", "De la Casa">>],
       [id |-> "b3", name |-> "Chuflay", price |-> "39 Bs",
        image |-> "/menu/menu_placeholder.png",
        tags |-> <<"Coctelería", "Frio">>],
       [id |-> "b4", name |-> "Chola Latte", price |-> "18 Bs",
        image |-> "/menu/menu_placeholder.png",
        tags |-> <<"Hot">>],
       [id |-> "b5", name |-> "Singani sour", price |-> "39 Bs",
        image |-> "/menu/menu_placeholder.png",
        tags |-> <<"Coctelería", "Frio">>],
       [id |-> "b6", name |-> "Golpe de estado", price |-> "33 Bs",
        image |-> "/menu/menu_placeholder.png",
        tags |-> <<"Coctelería", "Frio">>] >>

HardcodedAutor ==
    << [id |-> "c1", name |-> "Domitila", price |-> "66 Bs",
        image |-> "/menu/cocina_de_autor/domitila.jpg",
        tags |-> <<"Auténtico", "Sandwich">>],
       [id |-> "c2", name |-> "Incahuasi", price |-> "66 Bs",
        image |-> "/menu/menu_placeholder.png",
        tags |-> <<"Sandwich">>],
       [id |-> "c3", name |-> "Gran Poder", price |-> "66 Bs",
        image |-> "/menu/cocina_de_autor/gran_poder.jpg",
        tags |-> <<"Sandwich">>],
       [id |-> "c4", name |-> "Crispy Colonial", price |-> "66 Bs",
        image |-> "/menu/cocina_de_autor/crispy_colonial.jpg",
        tags |-> <<"Sandwich">>],
       [id |-> "c5", name |-> "Neo Liberal", price |-> "70 Bs",
        image |-> "/menu/cocina_de_autor/neo_liberal.png",
        tags |-> <<"Desayuno">>],
       [id |-> "c6", name |-> "Pachacuti", price |-> "60 Bs",
        image |-> "/menu/cocina_de_autor/pachacuti.jpg",
        tags |-> <<"Desayuno">>],
       [id |-> "c7", name |-> "Compadre", price |-> "68 Bs",
        image |-> "/menu/cocina_de_autor/compadre.jpg",
        tags |-> <<"Desayuno">>],
       [id |-> "c8", name |-> "El Fundido Del Libertador", price |-> "55 Bs",
        image |-> "/menu/cocina_de_autor/el_fundido_del_lib.jpg",
        tags |-> <<"Desayuno">>],
       [id |-> "c9", name |-> "Reforma Agraria", price |-> "66 Bs",
        image |-> "/menu/cocina_de_autor/reforma_agraria.webp",
        tags |-> <<"Rebowlucion", "Auténtico">>],
       [id |-> "c10", name |-> "Revolución", price |-> "66 Bs",
        image |-> "/menu/cocina_de_autor/revolucion.webp",
        tags |-> <<"Rebowlucion">>],
       [id |-> "c11", name |-> "Urus", price |-> "73 Bs",
        image |-> "/menu/cocina_de_autor/urus.webp",
        tags |-> <<"Rebowlucion">>],
       [id |-> "c12", name |-> "Obrera", price |-> "66 Bs",
        image |-> "/menu/menu_placeholder.png",
        tags |-> <<"Rebowlucion">>] >>

HardcodedPasteleria ==
    << [id |-> "d1", name |-> "Torta de chocolate", price |-> "25 Bs",
        image |-> "/menu/pasteleria/cake_choc.webp",
        tags |-> <<"Dulce">>] >>


CAFES == <<"c", "a", "f", "e", "s", " ", "y", " ", "b", "e", "b", "i", "d", "a", "s">>
AUTOR == <<"a", "u", "t", "o", "r">>
PASTELERIA == <<"p", "a", "s", "t", "e", "l", "e", "r", "i", "a">>
MenuKeys == {CAFES, AUTOR, PASTELERIA}

MenuTitle(key) ==
    CASE key = CAFES -> "Cafes y Bebidas"
      [] key = AUTOR -> "Cocina de Autor"
      [] key = PASTELERIA -> "Pastelería"

get_hardcoded_menu ==
    [key \in MenuKeys |->
        [title |-> MenuTitle(key),
         items |-> CASE key = CAFES -> HardcodedCafes
                     [] key = AUTOR -> HardcodedAutor
                     [] key = PASTELERIA -> HardcodedPasteleria]]

get_hardcoded_events ==
    << [id |-> StrVal(<<"e", "1">>), title |-> "Bolivian Coffee Tasting Workshop",
        date |-> StrVal(<<"2", "0", "2", "5", "-", "0", "5", "-", "1", "5", "T", "0", "0", ":", "0", "0", ":", "0", "0">>),
        time |-> "4:00 PM - 6:00 PM", location |-> "Main Hall",
        image |-> StrVal(<<"/", "e", "v", "e", "n", "t", "s", "/", "e", "v", "e", "n", "t", "-", "1", ".", "j", "p", "g">>),
        category |-> "workshop", capacity |-> IntVal(20)],
       [id |-> StrVal(<<"e", "2">>), title |-> "Andean Music Performance",
        date |-> StrVal(<<"2", "0", "2", "5", "-", "0", "5", "-", "2", "0", "T", "0", "0", ":", "0", "0", ":", "0", "0">>),
        time |-> "7:00 PM - 9:00 PM", location |-> "Outdoor Patio",
        image |-> StrVal(<<"/", "e", "v", "e", "n", "t", "s", "/", "e", "v", "e", "n", "t", "-", "2", ".", "j", "p", "g">>),
        category |-> "performance", capacity |-> IntVal(50)],
       [id |-> StrVal(<<"e", "3">>), title |-> "Bolivian History Book Club",
        date |-> StrVal(<<"2", "0", "2", "5", "-", "0", "5", "-", "2", "5", "T", "0", "0", ":", "0", "0", ":", "0", "0">>),
        time |-> "6:00 PM - 8:00 PM", location |-> "Library Corner",
        image |-> StrVal(<<"/", "e", "v", "e", "n", "t", "s", "/", "e", "v", "e", "n", "t", "-", "3", ".", "j", "p", "g">>),
        category |-> "meeting", capacity |-> IntVal(15)],
       [id |-> StrVal(<<"e", "4">>), title |-> "Traditional Weaving Exhibition",
        date |-> StrVal(<<"2", "0", "2", "5", "-", "0", "6", "-", "0", "1", "T", "0", "0", ":", "0", "0", ":", "0", "0">>),
        time |-> "10:00 AM - 8:00 PM", location |-> "Gallery Space",
        image |-> StrVal(<<"/", "e", "v", "e", "n", "t", "s", "/", "e", "v", "e", "n", "t", "-", "4", ".", "j", "p", "g">>),
        category |-> "exhibition", capacity |-> IntVal(100)],
       [id |-> StrVal(<<"e", "5">>), title |-> "Bolivian Cooking Class: Salteñas",
        date |-> StrVal(<<"2", "0", "2", "5", "-", "0", "6", "-", "1", "0", "T", "0", "0", ":", "0", "0", ":", "0", "0">>),
        time |-> "2:00 PM - 5:00 PM", location |-> "Kitchen",
        image |-> StrVal(<<"/", "e", "v", "e", "n", "t", "s", "/", "e", "v", "e", "n", "t", "-", "5", ".", "j", "p", "g">>),
        category |-> "workshop", capacity |-> IntVal(12)],
       [id |-> StrVal(<<"e", "6">>), title |-> "Political Discussion: Bolivia's Future",
        date |-> StrVal(<<"2", "0", "2", "5", "-", "0", "6", "-", "1", "8", "T", "0", "0", ":", "0", "0", ":", "0", "0">>),
        time |-> "6:30 PM - 8:30 PM", location |-> "Main Hall",
        image |-> StrVal(<<"/", "e", "v", "e", "n", "t", "s", "/", "e", "v", "e", "n", "t", "-", "6", ".", "j", "p", "g">>),
        category |-> "meeting", capacity |-> IntVal(40)] >>

(***************************************************************************)
(* utils.transform_menu_data                                               *)
(***************************************************************************)
COMMA == <<",">>
EmptyStr == StrVal(<<>>)

\* not v, with a string trimmed first
EmptyAfterTrimmed(v) == ~Truthy(v) \/ (v.t = "str" /\ Strip(v.s) = <<>>)

\* the skip test applied to trimmed values
MenuRowSkippedTrimmed(item) ==
    \/ EmptyAfterTrimmed(Get(item, "category_key"))
    \/ EmptyAfterTrimmed(Get(item, "item_name"))

\* `if not item.get("category_key") or not item.get("item_name"): continue`
MenuRowSkipped(item) ==
    \/ ~Truthy(Get(item, "category_key"))
    \/ ~Truthy(Get(item, "item_name"))

\* a loop that gives up on a row of an unknown category
MenuRowRaisesOnUnknownCategory(item) ==
    \/ GetD(item, "category_key", EmptyStr).t # "str"
    \/ Truthy(GetD(item, "item_tags", EmptyStr)) /\ GetD(item, "item_tags", EmptyStr).t # "str"
    \/ Truthy(GetD(item, "item_image", EmptyStr)) /\ GetD(item, "item_image", EmptyStr).t # "str"
    \/ Strip(Lower(GetD(item, "category_key", EmptyStr).s)) \notin MenuKeys

\* a loop in which no cell makes a row raise
MenuRowToleratesAnyCell(item) == FALSE

\* a row that is not skipped raises when .lower(), .split() or `in` meets a
\* value that is not a string
MenuRowRaises(item) ==
    \/ GetD(item, "category_key", EmptyStr).t # "str"
    \/ Truthy(GetD(item, "item_tags", EmptyStr)) /\ GetD(item, "item_tags", EmptyStr).t # "str"
    \/ Truthy(GetD(item, "item_image", EmptyStr)) /\ GetD(item, "item_image", EmptyStr).t # "str"

\* the tokens of the tag field trimmed, the empty ones kept
MenuTagsKeepingEmpty(tags_str) ==
    IF Truthy(tags_str)
    THEN LET tokens == Split(tags_str.s, COMMA)
         IN [i \in 1..Len(tokens) |-> Strip(tokens[i])]
    ELSE <<>>

\* `[tag.strip() for tag in tags_str.split(",") if tag.strip()] if tags_str else []`
MenuTags(tags_str) ==
    IF Truthy(tags_str)
    THEN LET tokens == Split(tags_str.s, COMMA)
             stripped == [i \in 1..Len(tokens) |-> Strip(tokens[i])]
         IN SelectSeq(stripped, LAMBDA tag : tag # <<>>)
    ELSE <<>>

\* an image rewritten whenever it is not empty, whatever its host
MenuImageRewrittenAlways(image_url) ==
    IF Truthy(image_url) THEN StrVal(convert_google_drive_link(image_url.s)) ELSE image_url

\* the image of a menu item
MenuImage(image_url) ==
    IF Truthy(image_url) /\ Contains(image_url.s, DRIVE_HOST)
    THEN StrVal(convert_google_drive_link(image_url.s))
    ELSE image_url

menu_item(item) ==
    [id |-> GetD(item, "item_id", EmptyStr),
     name |-> GetD(item, "item_name", EmptyStr),
     description |-> GetD(item, "item_description", EmptyStr),
     price |-> GetD(item, "item_price", EmptyStr),
     image |-> MenuImage(GetD(item, "item_image", EmptyStr)),
     tags |-> MenuTags(GetD(item, "item_tags", EmptyStr)),
     historical |-> GetD(item, "item_historical", EmptyStr)]

\* `item.get("category_key", "").lower().strip()`
CategoryKey(item) == Strip(Lower(GetD(item, "category_key", EmptyStr).s))

\* the loop over the rows: [raised, class, value]
RECURSIVE MenuLoop(_, _)
MenuLoop(menu, raw_items) ==
    IF raw_items = <<>> THEN [raised |-> FALSE, class |-> "", value |-> menu]
    ELSE LET item == Head(raw_items)
         IN IF MenuRowSkipped(item) THEN MenuLoop(menu, Tail(raw_items))
            ELSE IF MenuRowRaises(item)
                 THEN [raised |-> TRUE, class |-> "AttributeError", value |-> menu]
                 ELSE IF CategoryKey(item) \in MenuKeys
                      THEN MenuLoop([menu EXCEPT ![CategoryKey(item)].items =
                                        Append(@, menu_item(item))],
                                    Tail(raw_items))
                      ELSE MenuLoop(menu, Tail(raw_items))

\* a transform whose buckets are made when their first row arrives
transform_menu_data_buckets_on_use(raw_items) ==
    LET full == MenuLoop([key \in MenuKeys |-> [title |-> MenuTitle(key), items |-> <<>>]],
                         raw_items)
    IN [full EXCEPT !.value =
            [key \in {k \in MenuKeys : full.value[k].items # <<>>} |-> full.value[key]]]

transform_menu_data(raw_items) ==
    MenuLoop([key \in MenuKeys |-> [title |-> MenuTitle(key), items |-> <<>>]], raw_items)

(***************************************************************************)
(* utils.normalize_event_date and the loop of get_events_data              *)
(***************************************************************************)
\* the digits of a natural number (str(n))
RECURSIVE NatChars(_)
NatChars(n) ==
    IF n < 10 THEN <<<<"0", "1", "2", "3", "4", "5", "6", "7", "8", "9">>[n + 1]>>
    ELSE NatChars(n \div 10) \o NatChars(n % 10)

\* str(v)
PyStr(v) ==
    CASE v.t = "str" -> v.s
      [] v.t = "int" -> IF v.n < 0 THEN <<"-">> \o NatChars(0 - v.n) ELSE NatChars(v.n)
      [] OTHER -> <<"N", "o", "n", "e">>

\* n in decimal, zero-padded to at least w digits
Pad(n, w) ==
    LET d == NatChars(n)
    IN IF Len(d) >= w THEN d ELSE [i \in 1..(w - Len(d)) |-> "0"] \o d

\* the number of days of a month of the proleptic Gregorian calendar
DaysInMonth(year, month) ==
    IF month = 2
    THEN IF (year % 4 = 0 /\ year % 100 # 0) \/ year % 400 = 0 THEN 29 ELSE 28
    ELSE IF month \in {4, 6, 9, 11} THEN 30 ELSE 31

\* YYYY-MM-DD naming a day of the calendar
IsIsoDate(s) ==
    /\ Len(s) = 10
    /\ \A i \in {1, 2, 3, 4, 6, 7, 9, 10} : s[i] \in Digits
    /\ s[5] = "-" /\ s[8] = "-"
    /\ DigitsValue(SubSeq(s, 1, 4)) >= 1
    /\ DigitsValue(SubSeq(s, 6, 7)) \in 1..12
    /\ DigitsValue(SubSeq(s, 9, 10)) \in
          1..DaysInMonth(DigitsValue(SubSeq(s, 1, 4)), DigitsValue(SubSeq(s, 6, 7)))

\* YYYY-MM naming a month
IsIsoMonth(s) ==
    /\ Len(s) = 7
    /\ \A i \in {1, 2, 3, 4, 6, 7} : s[i] \in Digits
    /\ s[5] = "-"
    /\ DigitsValue(SubSeq(s, 1, 4)) >= 1
    /\ DigitsValue(SubSeq(s, 6, 7)) \in 1..12

\* HH:MM or HH:MM:SS
IsIsoTime(s) ==
    /\ Len(s) \in {5, 8}
    /\ \A i \in {1, 2, 4, 5} : s[i] \in Digits
    /\ s[3] = ":"
    /\ DigitsValue(SubSeq(s, 1, 2)) \in 0..23
    /\ DigitsValue(SubSeq(s, 4, 5)) \in 0..59
    /\ Len(s) = 8 =>
          /\ s[6] = ":"
          /\ s[7] \in Digits /\ s[8] \in Digits
          /\ DigitsValue(SubSeq(s, 7, 8)) \in 0..59

NoDate ==
    [ok |-> FALSE, year |-> 0, month |-> 0, day |-> 0, hour |-> 0, minute |-> 0,
     second |-> 0, utc |-> FALSE]

\* dateutil's parser.parse(date_str) on a day whose day of the month is `today`:
\* the fields the string gives, and for a field it does not give the field of
\* today at midnight (the day is cut to the last day of the month). The shapes
\* modelled as parsing are a month, a date, and a date followed by "T" or a
\* space, a time and possibly "Z"; the other explored strings are ones that
\* dateutil rejects.
ParseDate(date_str, today) ==
    IF IsIsoMonth(date_str)
    THEN LET year == DigitsValue(SubSeq(date_str, 1, 4))
             month == DigitsValue(SubSeq(date_str, 6, 7))
         IN [ok |-> TRUE, year |-> year, month |-> month,
             day |-> IF today > DaysInMonth(year, month)
                     THEN DaysInMonth(year, month) ELSE today,
             hour |-> 0, minute |-> 0, second |-> 0, utc |-> FALSE]
    ELSE IF Len(date_str) < 10 \/ ~IsIsoDate(SubSeq(date_str, 1, 10)) THEN NoDate
    ELSE LET rest == SubSeq(date_str, 11, Len(date_str))
             utc == rest # <<>> /\ rest[Len(rest)] = "Z"
             time == IF rest = <<>> THEN <<>>
                     ELSE SubSeq(rest, 2, IF utc THEN Len(rest) - 1 ELSE Len(rest))
         IN IF rest # <<>> /\ (Head(rest) \notin {"T", " "} \/ ~IsIsoTime(time)) THEN NoDate
            ELSE [ok |-> TRUE,
                  year |-> DigitsValue(SubSeq(date_str, 1, 4)),
                  month |-> DigitsValue(SubSeq(date_str, 6, 7)),
                  day |-> DigitsValue(SubSeq(date_str, 9, 10)),
                  hour |-> IF rest = <<>> THEN 0 ELSE DigitsValue(SubSeq(time, 1, 2)),
                  minute |-> IF rest = <<>> THEN 0 ELSE DigitsValue(SubSeq(time, 4, 5)),
                  second |-> IF Len(time) = 8 THEN DigitsValue(SubSeq(time, 7, 8)) ELSE 0,
                  utc |-> utc]

\* parser.parse accepts the string
DateParses(date_str) == ParseDate(date_str, 1).ok

\* datetime.isoformat()
isoformat(dt) ==
    Pad(dt.year, 4) \o <<"-">> \o Pad(dt.month, 2) \o <<"-">> \o Pad(dt.day, 2)
    \o <<"T">> \o Pad(dt.hour, 2) \o <<":">> \o Pad(dt.minute, 2) \o <<":">> \o Pad(dt.second, 2)
    \o (IF dt.utc THEN <<"+", "0", "0", ":", "0", "0">> ELSE <<>>)

\* parser.parse(date_str).isoformat(), the string itself when it does not parse
normalize_event_date(date_str, today) ==
    IF ParseDate(date_str, today).ok THEN isoformat(ParseDate(date_str, today))
    ELSE date_str

\* the capacity of an event after the loop body
EventCapacity(event) ==
    IF Truthy(Get(event, "capacity"))
    THEN IF PyInt(event.capacity).raised THEN IntVal(0) ELSE IntVal(PyInt(event.capacity).value)
    ELSE event.capacity

\* one pass of the loop body of get_events_data
EventOf(event, today) ==
    [event EXCEPT
        !.date = IF Truthy(Get(event, "date"))
                 THEN StrVal(normalize_event_date(PyStr(event.date), today))
                 ELSE EmptyStr,
        !.capacity = EventCapacity(event),
        !.image = IF Truthy(Get(event, "image")) /\ Contains(PyStr(event.image), DRIVE_HOST)
                  THEN StrVal(convert_google_drive_link(PyStr(event.image)))
                  ELSE event.image]

\* the day of the month on the server's clock
Clock == {1, 15, 31}

(***************************************************************************)
(* The state before any request, and between requests.                     *)
(***************************************************************************)
NoRequest == [kind |-> "none"]
NoResponse == [status |-> 0, kind |-> "none"]
\* the reply of an external call that has not answered yet
Pending == [kind |-> "pending"]

\* a request context in which no request is being handled
IdleContext ==
    [endpoint |-> "none", pc |-> "idle", req |-> NoRequest, calls |-> <<>>,
     resp |-> NoResponse]

Init ==
    /\ endpoint = "none"
    /\ pc = "idle"
    /\ req = NoRequest
    /\ calls = <<>>
    /\ resp = NoResponse
    /\ store = <<>>
    /\ bookings = 0
    /\ other = IdleContext

\* utils.get_google_sheets_credentials called under an environment
LoadCredentials ==
    /\ pc = "idle"
    /\ \E env \in CredentialEnvs :
        /\ req' = [kind |-> "env", env |-> env]
        /\ resp' = [status |-> 0, kind |-> "credentials",
                    value |-> get_google_sheets_credentials(env)]
    /\ endpoint' = "get_google_sheets_credentials"
    /\ pc' = "done"
    /\ UNCHANGED calls
    /\ UNCHANGED <<store, bookings, other>>

\* utils.convert_google_drive_link called with a string, and once more with
\* its own result
ConvertLink ==
    /\ pc = "idle"
    /\ \E u \in DriveUrls :
        /\ req' = [kind |-> "url", url |-> u]
        /\ resp' = [status |-> 0, kind |-> "url",
                    url |-> convert_google_drive_link(u),
                    again |-> convert_google_drive_link(convert_google_drive_link(u))]
    /\ endpoint' = "convert_google_drive_link"
    /\ pc' = "done"
    /\ UNCHANGED calls
    /\ UNCHANGED <<store, bookings, other>>

\* the date strings explored: months and dates of two Februaries and two Julys
\* (days that exist and days that do not), alone and followed by a time, and
\* two strings that are no date
DateTimes ==
    {<<>>, <<"T", "1", "0", ":", "0", "0", ":", "0", "0">>,
     <<" ", "2", "3", ":", "5", "9", ":", "5", "9">>,
     <<"T", "0", "9", ":", "0", "5">>,
     <<"T", "1", "0", ":", "0", "0", ":", "0", "0", "Z">>}
DateStrings ==
    LET months == {y \o <<"-">> \o m :
                      y \in {<<"2", "0", "2", "4">>, <<"2", "0", "2", "3">>},
                      m \in {<<"0", "2">>, <<"0", "7">>}}
        days == {<<"-", "0", "1">>, <<"-", "2", "9">>, <<"-", "3", "0">>, <<"-", "3", "1">>}
    IN months
       \cup {m \o d \o t : m \in months, d \in days, t \in DateTimes}
       \cup {<<"s", "o", "o", "n">>, <<>>}

\* utils.normalize_event_date called with a string
NormalizeDate ==
    /\ pc = "idle"
    /\ \E date_str \in DateStrings, today \in Clock :
        /\ req' = [kind |-> "date", date_str |-> date_str, today |-> today]
        /\ resp' = [status |-> 0, kind |-> "date",
                    value |-> normalize_event_date(date_str, today)]
    /\ endpoint' = "normalize_event_date"
    /\ pc' = "done"
    /\ UNCHANGED <<calls, store, bookings, other>>

(***************************************************************************)
(* config.Config.validate_config                                           *)
(***************************************************************************)
required_vars ==
    <<"MAIL_USERNAME", "MAIL_PASSWORD", "MAIL_FROM", "SUPABASE_URL", "SUPABASE_KEY",
      "GOOGLE_CREDENTIALS_JSON", "GOOGLE_SHEET_ID">>

\* the class attributes read from the environment: None for a variable that is
\* unset, the empty string for one set to nothing
Configs ==
    [{required_vars[i] : i \in 1..Len(required_vars)} -> {None, EmptyStr, StrVal(<<"x">>)}]

\* the first missing variable only
RECURSIVE FirstMissingVar(_, _)
FirstMissingVar(names, cls) ==
    IF names = <<>> THEN <<>>
    ELSE IF ~Truthy(cls[Head(names)]) THEN <<Head(names)>>
         ELSE FirstMissingVar(Tail(names), cls)

\* the loop that collects missing_vars
RECURSIVE MissingVars(_, _)
MissingVars(names, cls) ==
    IF names = <<>> THEN <<>>
    ELSE (IF ~Truthy(cls[Head(names)]) THEN <<Head(names)>> ELSE <<>>)
         \o MissingVars(Tail(names), cls)

\* [raised, class, message, value]; the message is the fixed text followed by
\* the joined names
validate_config(cls) ==
    LET missing_vars == MissingVars(required_vars, cls)
    IN IF missing_vars # <<>>
       THEN [raised |-> TRUE, class |-> "ValueError",
             message |-> [text |-> "Missing required environment variables: ",
                          joined |-> missing_vars],
             value |-> FALSE]
       ELSE [raised |-> FALSE, class |-> "",
             message |-> [text |-> "", joined |-> <<>>],
             value |-> TRUE]

ValidateConfig ==
    /\ pc = "idle"
    /\ \E cls \in Configs :
        /\ req' = [kind |-> "config", cls |-> cls]
        /\ resp' = [status |-> 0, kind |-> "config", result |-> validate_config(cls)]
    /\ endpoint' = "validate_config"
    /\ pc' = "done"
    /\ UNCHANGED <<calls, store, bookings, other>>

(***************************************************************************)
(* api_routes.get_drive_image: GET /api/image/{file_id}                    *)
(***************************************************************************)
\* the character class [a-zA-Z0-9_-]
FileIdClass == LowerCase \cup UpperCase \cup Digits \cup {"_", "-"}

\* re.match(r'^[a-zA-Z0-9_-]+$', file_id). Python's $ matches at the end of the
\* string and also just before a newline that ends the string.
FileIdMatches(file_id) ==
    \E k \in 1..Len(file_id) :
        /\ \A i \in 1..k : file_id[i] \in FileIdClass
        /\ \/ k = Len(file_id)
           \/ k = Len(file_id) - 1 /\ file_id[Len(file_id)] = "\n"

\* The exception classes that can be raised inside the handler's try block and
\* the classes each one is an instance of (httpx.TimeoutException is a
\* TransportError, which is a RequestError; fastapi's HTTPException derives
\* from Exception).
InstanceOf(exc) ==
    CASE exc.class = "TimeoutException" -> {"TimeoutException", "RequestError", "Exception"}
      [] exc.class = "ReadTimeout" ->
            {"ReadTimeout", "TimeoutException", "RequestError", "Exception"}
      [] exc.class = "ConnectError" -> {"ConnectError", "RequestError", "Exception"}
      [] exc.class = "RequestError" -> {"RequestError", "Exception"}
      [] exc.class = "HTTPException" -> {"HTTPException", "Exception"}
      [] OTHER -> {"Exception"}

HTTPException(status_code, detail) ==
    [class |-> "HTTPException", status_code |-> status_code, detail |-> detail]

\* what FastAPI answers for an HTTPException that leaves the handler
ErrorResponse(exc) == [status |-> exc.status_code, kind |-> "error", detail |-> exc.detail]

\* what FastAPI answers for an exception that leaves a handler
ServerError == [status |-> 500, kind |-> "error", detail |-> "Internal Server Error"]

\* the clauses for RequestError and TimeoutException in the other order
ImageExceptRequestErrorFirst(exc) ==
    IF "RequestError" \in InstanceOf(exc)
    THEN HTTPException(503, "Error fetching image")
    ELSE IF "TimeoutException" \in InstanceOf(exc)
         THEN HTTPException(504, "Timeout fetching image")
         ELSE HTTPException(500, "Internal server error")

\* the handler's except clauses, tried in order, for an exception raised inside
\* its try block; each raises the HTTPException the caller is answered with
ImageExcept(exc) ==
    IF "TimeoutException" \in InstanceOf(exc)
    THEN HTTPException(504, "Timeout fetching image")
    ELSE IF "RequestError" \in InstanceOf(exc)
         THEN HTTPException(503, "Error fetching image")
         ELSE HTTPException(500, "Internal server error")

\* the characters explored in file ids
FileIdChars == {"a", "B", "1", "_", "-", ".", "\n"}
FileIds == SeqsOf(FileIdChars, 1, MaxIdLen)

\* what the image host can answer: a final status (redirects are followed) with
\* a content type (Absent when the header is missing), or a failure of the request
UpstreamStatuses == {200, 204, 403, 404, 500}
UpstreamContentTypes ==
    {Absent, EmptyStr,
     StrVal(<<"i", "m", "a", "g", "e", "/", "p", "n", "g">>),
     StrVal(<<"I", "m", "a", "g", "e", "/", "p", "n", "g">>),
     StrVal(<<"t", "e", "x", "t", "/", "h", "t", "m", "l">>),
     StrVal(<<"i", "m", "a", "g", "e">>)}
UpstreamOutcomes ==
    [kind : {"response"}, status : UpstreamStatuses, ctype : UpstreamContentTypes]
    \cup {[kind |-> "raise", class |-> c] :
            c \in {"TimeoutException", "ReadTimeout", "ConnectError", "RequestError",
                   "ValueError"}}

\* the handler up to its await: validation, then the request to the image host
ImageRequest ==
    /\ pc = "idle"
    /\ \E file_id \in FileIds :
        /\ req' = [kind |-> "image", file_id |-> file_id]
        /\ IF ~FileIdMatches(file_id)
           THEN /\ resp' = ErrorResponse(ImageExcept(HTTPException(400, "Invalid file ID format")))
                /\ calls' = calls
                /\ pc' = "done"
           ELSE /\ calls' = Append(calls, [svc |-> "drive", arg |-> DIRECT_VIEW \o file_id,
                                           reply |-> Pending])
                /\ resp' = resp
                /\ pc' = "upstream"
    /\ endpoint' = "image"
    /\ UNCHANGED <<store, bookings, other>>

IMAGE_SLASH == <<"i", "m", "a", "g", "e", "/">>
IMAGE_JPEG == <<"i", "m", "a", "g", "e", "/", "j", "p", "e", "g">>

\* every content type taken for an image
StartsWithAnything(content_type) == TRUE

\* `content_type.startswith("image/")`
StartsWithImage(content_type) == StartsAt(content_type, IMAGE_SLASH, 1)

\* the media type of the response: the upstream content type, image/jpeg when
\* the header is missing or does not start with "image/"
MediaType(ctype) ==
    LET content_type == GetD([h |-> ctype], "h", StrVal(IMAGE_JPEG)).s
    IN IF ~StartsWithImage(content_type) THEN IMAGE_JPEG ELSE content_type

\* the handler after its await
ImageUpstream ==
    /\ pc = "upstream"
    /\ \E o \in UpstreamOutcomes :
        /\ calls' = [calls EXCEPT ![Len(calls)].reply = o]
        /\ resp' =
            IF o.kind = "raise"
            THEN ErrorResponse(ImageExcept(o))
            ELSE IF o.status # 200
                 THEN ErrorResponse(ImageExcept(HTTPException(404, "Image not found")))
                 ELSE [status |-> 200, kind |-> "image",
                       media_type |-> MediaType(o.ctype),
                       cache_control |-> "public, max-age=3600",
                       allow_origin |-> "*"]
    /\ pc' = "done"
    /\ UNCHANGED <<endpoint, req>>
    /\ UNCHANGED <<store, bookings, other>>

(***************************************************************************)
(* The mail relay (fastapi_mail) as the two mail handlers see it.          *)
(***************************************************************************)
RelayOutcomes ==
    {[kind |-> "sent"], [kind |-> "raise", class |-> "ConnectionErrors"],
     [kind |-> "raise", class |-> "SMTPAuthenticationError"]}

(***************************************************************************)
(* models.ContactForm and api_routes.contact: POST /api/contact            *)
(***************************************************************************)
AT_SIGN == <<"@">>
DOT == <<".">>

\* pydantic's EmailStr, as far as the explored addresses need it: exactly one
\* "@", a non-empty local part, and a domain with a period that neither starts
\* nor ends it
EmailStrValid(e) ==
    /\ Contains(e, AT_SIGN)
    /\ ~Contains(AfterFirst(e, AT_SIGN), AT_SIGN)
    /\ SplitFirst(e, AT_SIGN) # <<>>
    /\ LET domain == AfterFirst(e, AT_SIGN)
       IN /\ Contains(domain, DOT)
          /\ Head(domain) # "."
          /\ domain[Len(domain)] # "."

\* the field declared as a plain string, as CaptivePortalUser.email is
ContactFormEmailPlainStr == "str"

\* the declared type of ContactForm.email
ContactFormEmailType == "EmailStr"

\* request validation of a field against its declared type
FieldValid(type, value) == IF type = "EmailStr" THEN EmailStrValid(value) ELSE TRUE

Emails ==
    { <<"a", "@", "b", ".", "c", "o">>, <<"a", ".", "b", "@", "c", ".", "d">>,
      <<"a", "@", "b">>, <<"a", "b", ".", "c", "o">>, <<>>, <<"@", "b", ".", "c", "o">>,
      <<"a", "@", "@", "b", ".", "c", "o">>, <<"a", "@", "b", ".">>, <<"a", "@">> }
Subjects == {<<"h", "i">>, <<>>}

\* FastAPI validates the body against ContactForm before it calls the handler;
\* the handler (email_service.send_contact_email) builds the message and awaits
\* the relay
ContactRequest ==
    /\ pc = "idle"
    /\ \E email \in Emails, subject \in Subjects :
        /\ req' = [kind |-> "contact", email |-> email, subject |-> subject]
        /\ IF ~FieldValid(ContactFormEmailType, email)
           THEN /\ resp' = [status |-> 422, kind |-> "error", detail |-> "validation"]
                /\ calls' = calls
                /\ pc' = "done"
           ELSE /\ calls' = Append(calls, [svc |-> "mail", arg |-> subject, reply |-> Pending])
                /\ resp' = resp
                /\ pc' = "relay"
    /\ endpoint' = "contact"
    /\ UNCHANGED <<store, bookings, other>>

\* a clause that catches only the relay's connection errors
MailSendCatchesConnectionErrors(exc) == exc.class = "ConnectionErrors"

\* `except Exception` of send_contact_email
MailSendCatches(exc) == "Exception" \in InstanceOf(exc)

\* send_contact_email once the relay has answered: the result dictionary, or
\* the server error FastAPI answers when the exception leaves the handler
send_contact_email(o) ==
    IF o.kind = "sent"
    THEN [status |-> 200, kind |-> "success", message |-> "Email sent"]
    ELSE IF MailSendCatches(o)
         THEN [status |-> 200, kind |-> "error", message |-> "Failed to send email"]
         ELSE ServerError

\* the contact handler after its await
ContactRelay ==
    /\ pc = "relay"
    /\ endpoint = "contact"
    /\ \E o \in RelayOutcomes :
        /\ calls' = [calls EXCEPT ![Len(calls)].reply = o]
        /\ resp' = send_contact_email(o)
    /\ pc' = "done"
    /\ UNCHANGED <<endpoint, req>>
    /\ UNCHANGED <<store, bookings, other>>

(***************************************************************************)
(* services.GoogleSheetsService: the reads behind GET /api/menu,           *)
(* GET /api/events and GET /api/events/{event_id}                          *)
(***************************************************************************)
\* the step of a read that fails, if any, in the order the steps are taken
SheetFaults ==
    {"none", "from_service_account_info", "authorize", "open_by_key", "worksheet",
     "get_all_records"}

\* the exception a failing step raises
FaultClass(fault) ==
    CASE fault = "from_service_account_info" -> "Exception"
      [] fault = "authorize" -> "RefreshError"
      [] fault = "worksheet" -> "WorksheetNotFound"
      [] OTHER -> "APIError"

NoException == [raised |-> FALSE, class |-> ""]
Raise(class) == [raised |-> TRUE, class |-> class]

\* credentials taken as available whatever the loader returned
CredentialsAssumedAvailable(source) == source.fault # "from_service_account_info"

\* _get_credentials: None when the loader returns None or the bundle is refused
CredentialsAvailable(source) ==
    /\ get_google_sheets_credentials(source.env).t # "none"
    /\ source.fault # "from_service_account_info"

\* _get_worksheet followed by worksheet.get_all_records()
ReadRecords(source) ==
    IF ~CredentialsAvailable(source) THEN Raise("Exception")
    ELSE IF source.fault # "none" THEN Raise(FaultClass(source.fault))
    ELSE NoException

\* the calls a read makes to the spreadsheet service
SheetCalls(source) ==
    IF CredentialsAvailable(source)
    THEN Append(<<>>, [svc |-> "sheets", arg |-> <<>>, reply |-> [kind |-> source.fault]])
    ELSE <<>>

\* a narrower clause: only the errors of the spreadsheet service are caught
SheetReadCatchesApiErrors(exc) == exc.class \in {"APIError", "WorksheetNotFound"}

\* `except Exception` of get_menu_data and get_events_data
SheetReadCatches(exc) == "Exception" \in InstanceOf(exc)

\* [raised, class, value]: the menu served
get_menu_data(source) ==
    LET read == ReadRecords(source)
        attempt == IF read.raised
                   THEN [raised |-> TRUE, class |-> read.class, value |-> <<>>]
                   ELSE transform_menu_data(source.rows)
    IN IF attempt.raised /\ SheetReadCatches(attempt)
       THEN [raised |-> FALSE, class |-> "", value |-> get_hardcoded_menu]
       ELSE attempt

\* a loop that leaves out the rows whose date does not parse
EventsLoopSkippingUnparsable(raw_events, today) ==
    LET kept == SelectSeq(raw_events, LAMBDA event :
                    ~Truthy(Get(event, "date")) \/ ParseDate(PyStr(event.date), today).ok)
    IN [i \in 1..Len(kept) |-> EventOf(kept[i], today)]

\* `for event in raw_events: ... events.append(event)`
EventsLoop(raw_events, today) ==
    [i \in 1..Len(raw_events) |-> EventOf(raw_events[i], today)]

\* [raised, class, value]: the events served
get_events_data(source) ==
    LET read == ReadRecords(source)
        attempt == IF read.raised
                   THEN [raised |-> TRUE, class |-> read.class, value |-> <<>>]
                   ELSE [raised |-> FALSE, class |-> "",
                         value |-> EventsLoop(source.rows, source.today)]
    IN IF attempt.raised /\ SheetReadCatches(attempt)
       THEN [raised |-> FALSE, class |-> "", value |-> get_hardcoded_events]
       ELSE attempt

\* a == b on two Python values
PyEq(a, b) == a.t = b.t /\ a.s = b.s /\ a.n = b.n

\* the loop of get_event: [raised, found, event]
RECURSIVE EventLookup(_, _)
EventLookup(events, event_id) ==
    IF events = <<>> THEN [raised |-> FALSE, found |-> FALSE, event |-> <<>>]
    ELSE IF Head(events).id.t = "absent"
         THEN [raised |-> TRUE, found |-> FALSE, event |-> <<>>]
         ELSE IF PyEq(Head(events).id, StrVal(event_id))
              THEN [raised |-> FALSE, found |-> TRUE, event |-> Head(events)]
              ELSE EventLookup(Tail(events), event_id)

\* the explored worksheets. get_all_records gives every row the same columns,
\* so a column is absent from all rows or from none
SameColumns(rows, columns) ==
    \A c \in columns : \A i, j \in 1..Len(rows) :
        (rows[i][c].t = "absent") = (rows[j][c].t = "absent")

MenuColumns ==
    {"category_key", "item_name", "item_id", "item_tags", "item_image",
     "item_description", "item_price", "item_historical"}
MenuRows ==
    [category_key : {Absent, EmptyStr, StrVal(<<" ">>), StrVal(AUTOR),
                     StrVal(<<" ", "A", "U", "T", "O", "R", "\t">>),
                     StrVal(<<"p", "o", "s", "t", "r", "e">>),
                     IntVal(5)},
     item_name : {Absent, EmptyStr, StrVal(<<" ">>), StrVal(<<"T", "e">>), IntVal(0)},
     item_id : {StrVal(<<"m", "1">>)},
     item_tags : {StrVal(<<"H", "o", "t", ",", " ", "C", "o", "l", "d", " ", ",">>)},
     item_image : {StrVal(<<"/", "m", ".", "p", "n", "g">>)},
     item_description : {EmptyStr},
     item_price : {IntVal(39)},
     item_historical : {EmptyStr}]
\* rows of the autor category that differ in their id and their tag field
TagChars == {"H", ",", " "}
MenuDetailRows ==
    [category_key : {StrVal(AUTOR)},
     item_name : {StrVal(<<"T", "e">>)},
     item_id : {Absent, EmptyStr, StrVal(<<"m", "1">>), IntVal(7)},
     item_tags : {StrVal(tags) : tags \in SeqsOf(TagChars, 0, MaxTagLen)}
                 \cup {Absent, IntVal(0), IntVal(5)},
     item_image : {StrVal(<<"/", "m", ".", "p", "n", "g">>)},
     item_description : {EmptyStr},
     item_price : {IntVal(39)},
     item_historical : {EmptyStr}]
\* a share link of a file on the drive
DRIVE_SHARE ==
    <<"h", "t", "t", "p", "s", ":", "/", "/">> \o DRIVE_HOST \o FILE_D
        \o <<"A", "b", "/", "v", "i", "e", "w">>

\* rows that differ in their category: the three known keys (one in another
\* case and with spaces around), a part of a known key, and an unknown key
MenuCategoryRows ==
    [category_key : {StrVal(CAFES), StrVal(AUTOR),
                     StrVal(<<" ", "P", "a", "s", "t", "e", "l", "e", "r", "i", "a", " ">>),
                     StrVal(<<"c", "a", "f", "e", "s">>),
                     StrVal(<<"p", "o", "s", "t", "r", "e">>)},
     item_name : {StrVal(<<"T", "e">>), StrVal(<<"P", "a", "n">>)},
     item_id : {StrVal(<<"m", "1">>)},
     item_tags : {EmptyStr},
     item_image : {EmptyStr},
     item_description : {EmptyStr},
     item_price : {IntVal(39)},
     item_historical : {EmptyStr}]
\* rows of the autor category that differ in their image
MenuImageRows ==
    [category_key : {StrVal(AUTOR)},
     item_name : {StrVal(<<"T", "e">>)},
     item_id : {StrVal(<<"m", "1">>)},
     item_tags : {EmptyStr},
     item_image : {Absent, EmptyStr, StrVal(<<"/", "m", ".", "p", "n", "g">>),
                   StrVal(DRIVE_SHARE),
                   StrVal(<<"/", "i", "?">> \o ID_EQ \o <<"7">>),
                   StrVal(FILE_D \o <<"x", ".", "p", "n", "g">>)},
     item_description : {EmptyStr},
     item_price : {IntVal(39)},
     item_historical : {EmptyStr}]
MenuRowLists ==
    {rows \in SeqsOf(MenuRows, 0, MaxRows) : SameColumns(rows, MenuColumns)}
    \cup {<<row>> : row \in MenuDetailRows}
    \cup SeqsOf(MenuCategoryRows, 1, MaxRows)
    \cup {<<row>> : row \in MenuImageRows}

EventColumns == {"id", "date", "capacity", "image"}
EventRows ==
    [id : {Absent, StrVal(<<"e", "1">>), StrVal(<<"e", "2">>)},
     date : {StrVal(<<"2", "0", "2", "4", "-", "0", "7", "-", "0", "1">>)},
     capacity : {Absent, EmptyStr, StrVal(<<"2", "0">>), StrVal(<<"a", "b", "c">>),
                 IntVal(20), IntVal(0)},
     image : {EmptyStr}]
\* rows that differ in their id, their date and their image
EventDetailRows ==
    [id : {StrVal(<<"e", "1">>), StrVal(<<"e", "2">>)},
     date : {StrVal(<<"2", "0", "2", "4", "-", "0", "7", "-", "0", "1">>),
             StrVal(<<"s", "o", "o", "n">>)},
     capacity : {StrVal(<<"a", "b", "c">>)},
     image : {EmptyStr, StrVal(DRIVE_SHARE),
              StrVal(<<"/", "i", "?">> \o ID_EQ \o <<"7">>),
              StrVal(FILE_D \o <<"x", ".", "p", "n", "g">>)}]
EventRowLists ==
    {rows \in SeqsOf(EventRows, 0, MaxRows) : SameColumns(rows, EventColumns)}
    \cup SeqsOf(EventDetailRows, 1, MaxRows)

EventIds == {<<"e", "1">>, <<"e", "2">>, <<"e", "9">>}

\* A read is explored with every environment and every failing step on an
\* empty worksheet, and with every worksheet under one environment of each
\* credential path. `today` is the day of the month on the server's clock; the
\* explored worksheets hold complete dates, which take nothing from it.
SheetSources(rowLists) ==
    [env : CredentialEnvs, fault : SheetFaults, rows : {<<>>}, today : {15}]
    \cup [env : {[blob |-> "json", fields |-> [field \in RequiredFields |-> "absent"]],
                 [blob |-> "absent", fields |-> [field \in RequiredFields |-> "set"]]},
          fault : {"none"}, rows : rowLists, today : {15}]

\* The dictionaries and lists a handler answers with are objects of the
\* interpreter, each with an identity. The ones alive are those held by the
\* response of the other request in flight.
ObjectsInUse ==
    IF other.resp.kind \in {"menu", "events"} THEN {other.resp.obj} ELSE {}

\* one object, built when the module is loaded and handed out to every caller
ModuleLevelObject(in_use) == 1

\* a dict or list display evaluated in a function body builds a new object on
\* every call: its identity is one that no object alive has
FreshObject(in_use) == CHOOSE id \in 1..(Cardinality(in_use) + 1) : id \notin in_use

\* api_routes.get_menu, reading one of the given sources
MenuRequest(sources) ==
    /\ pc = "idle"
    /\ \E source \in sources :
        /\ req' = [kind |-> "menu", source |-> source]
        /\ calls' = SheetCalls(source)
        /\ resp' = IF get_menu_data(source).raised THEN ServerError
                   ELSE [status |-> 200, kind |-> "menu", menu |-> get_menu_data(source).value,
                         obj |-> FreshObject(ObjectsInUse)]
    /\ endpoint' = "menu"
    /\ pc' = "done"
    /\ UNCHANGED <<store, bookings, other>>

\* api_routes.get_events, reading one of the given sources
EventsRequest(sources) ==
    /\ pc = "idle"
    /\ \E source \in sources :
        /\ req' = [kind |-> "events", source |-> source]
        /\ calls' = SheetCalls(source)
        /\ resp' = IF get_events_data(source).raised THEN ServerError
                   ELSE [status |-> 200, kind |-> "events",
                         events |-> get_events_data(source).value,
                         obj |-> FreshObject(ObjectsInUse)]
    /\ endpoint' = "events"
    /\ pc' = "done"
    /\ UNCHANGED <<store, bookings, other>>

GetMenu == MenuRequest(SheetSources(MenuRowLists))

GetEvents == EventsRequest(SheetSources(EventRowLists))

\* the reads explored with two requests in flight: an empty worksheet, with
\* each step of the read failing or none
ConcurrentSources ==
    [env : {[blob |-> "absent", fields |-> [field \in RequiredFields |-> "set"]]}, fault : SheetFaults,
     rows : {<<>>}, today : {15}]

GetMenuConcurrently == MenuRequest(ConcurrentSources)

GetEventsConcurrently == EventsRequest(ConcurrentSources)

\* api_routes.get_event. The tuple the handler returns when no event matches is
\* serialised as a two-element array and answered with status 200.
GetEvent ==
    /\ pc = "idle"
    /\ \E source \in SheetSources(EventRowLists), event_id \in EventIds :
        LET events == get_events_data(source)
            found == EventLookup(events.value, event_id)
        IN /\ req' = [kind |-> "event", source |-> source, event_id |-> event_id,
                      events |-> events]
           /\ calls' = SheetCalls(source)
           /\ resp' = IF events.raised \/ found.raised THEN ServerError
                      ELSE IF found.found
                           THEN [status |-> 200, kind |-> "event", event |-> found.event]
                           ELSE [status |-> 200, kind |-> "not_found",
                                 body |-> <<[detail |-> "Event not found"], 404>>]
    /\ endpoint' = "event"
    /\ pc' = "done"
    /\ UNCHANGED <<store, bookings, other>>

(***************************************************************************)
(* api_routes.book_event_email: POST /api/book-event-email                 *)
(***************************************************************************)
\* strftime('%m/%d/%Y') of a parsed date
MonthDayYear(dt) == Pad(dt.month, 2) \o <<"/">> \o Pad(dt.day, 2) \o <<"/">> \o Pad(dt.year, 4)

\* the date as the mail body and the audit row show it
FormattedDate(data, today) ==
    LET date == GetD(data, "date", EmptyStr)
    IN IF Truthy(date) /\ date.t = "str" /\ DateParses(date.s)
       THEN MonthDayYear(ParseDate(date.s, today))
       ELSE PyStr(date)

\* the background task has not run
NoLog == [sheet_id |-> FALSE,
          env |-> [blob |-> "absent", fields |-> [field \in RequiredFields |-> "absent"]],
          fault |-> "not_run"]

BookingData ==
    [date : {Absent, StrVal(<<"2", "0", "2", "4", "-", "0", "7", "-", "0", "1">>),
             StrVal(<<"s", "o", "o", "n">>)}]

\* the handler up to the await inside send_booking_email
BookEmailRequest ==
    /\ pc = "idle"
    /\ \E data \in BookingData, today \in Clock :
        /\ req' = [kind |-> "booking", data |-> data, today |-> today, log |-> NoLog]
        /\ calls' = Append(calls, [svc |-> "mail", arg |-> FormattedDate(data, today),
                                   reply |-> Pending])
    /\ endpoint' = "book_event_email"
    /\ pc' = "relay"
    /\ UNCHANGED resp
    /\ UNCHANGED <<store, bookings, other>>

\* send_booking_email's result dictionary
BookingResult(o) ==
    IF o.kind = "sent"
    THEN [status |-> 200, kind |-> "success", message |-> "Solicitud enviada por correo"]
    ELSE [status |-> 200, kind |-> "error", message |-> "Failed to send booking email"]

\* the handler after the await: the audit log is queued as a background task
\* and the result of the send is returned
BookEmailRelay ==
    /\ pc = "relay"
    /\ endpoint = "book_event_email"
    /\ \E o \in RelayOutcomes :
        /\ calls' = [calls EXCEPT ![Len(calls)].reply = o]
        /\ resp' = BookingResult(o)
    /\ pc' = "background"
    /\ UNCHANGED <<endpoint, req>>
    /\ UNCHANGED <<store, bookings, other>>

\* utils.log_event_booking_to_sheets. The environment: whether BOOKING_SHEET_ID
\* is set, the credential variables, and the step that fails, if any.
BookingFaults ==
    {"none", "from_service_account_info", "authorize", "open_by_key", "worksheet",
     "append_row"}
BookingEnvs == [sheet_id : BOOLEAN, env : CredentialEnvs, fault : BookingFaults]

\* whether the function gets as far as worksheet.append_row
ReachesAppend(b) ==
    /\ b.sheet_id
    /\ get_google_sheets_credentials(b.env).t # "none"
    /\ b.fault \in {"none", "append_row"}

log_event_booking_to_sheets(b) == ReachesAppend(b) /\ b.fault = "none"

\* a background task whose failure reaches the response
BackgroundLogRaising(envs) ==
    /\ pc = "background"
    /\ \E b \in envs :
        /\ calls' = IF ReachesAppend(b)
                    THEN Append(calls, [svc |-> "sheets_append",
                                        arg |-> FormattedDate(req.data, req.today),
                                        reply |-> [kind |-> IF log_event_booking_to_sheets(b)
                                                            THEN "appended" ELSE "raise"]])
                    ELSE calls
        /\ req' = [req EXCEPT !.log = b]
        /\ resp' = IF log_event_booking_to_sheets(b) THEN resp ELSE ServerError
    /\ pc' = "done"
    /\ UNCHANGED endpoint
    /\ UNCHANGED <<store, bookings, other>>

\* the background task (GoogleSheetsService.log_event_booking), run after the
\* response has been sent, under one of the given environments; the request
\* keeps the environment the task ran under
BackgroundLogIn(envs) ==
    /\ pc = "background"
    /\ \E b \in envs :
        /\ calls' = IF ReachesAppend(b)
                    THEN Append(calls, [svc |-> "sheets_append",
                                        arg |-> FormattedDate(req.data, req.today),
                                        reply |-> [kind |-> IF log_event_booking_to_sheets(b)
                                                            THEN "appended" ELSE "raise"]])
                    ELSE calls
        /\ req' = [req EXCEPT !.log = b]
    /\ pc' = "done"
    /\ UNCHANGED <<endpoint, resp>>
    /\ UNCHANGED <<store, bookings, other>>

BackgroundLog == BackgroundLogIn(BookingEnvs)

\* the environments explored with two requests in flight: every required
\* variable set, the sheet id set or not, each step failing or none
BackgroundLogConcurrently ==
    BackgroundLogIn([sheet_id : BOOLEAN,
                     env : {[blob |-> "absent",
                             fields |-> [field \in RequiredFields |-> "set"]]},
                     fault : BookingFaults])

\* the process stops before the background task has run
ProcessStops ==
    /\ pc = "background"
    /\ pc' = "done"
    /\ UNCHANGED <<endpoint, req, calls, resp>>
    /\ UNCHANGED <<store, bookings, other>>

(***************************************************************************)
(* services.SupabaseService.store_user behind POST /api/store-user         *)
(***************************************************************************)
\* what the record store can answer to an insert
InsertOutcomes ==
    {[kind |-> "inserted"], [kind |-> "raise", class |-> "APIError"],
     [kind |-> "raise", class |-> "ConnectError"]}

\* the bodies explored: CaptivePortalUser has two required string fields, and
\* the email is a plain string
PortalUsers ==
    [fullName : {StrVal(<<"A", "n", "a">>)},
     email : {StrVal(<<"a", "@", "b", ".", "c", "o">>), StrVal(<<"x">>), Absent}]

\* request validation against CaptivePortalUser
CaptivePortalUserValid(user) == user.fullName.t = "str" /\ user.email.t = "str"

\* the row store_user inserts
UserRow(user) == [full_name |-> user.fullName, email |-> user.email]

\* a clause that catches only the errors the record store reports
StoreUserCatchesApiErrors(exc) == exc.class = "APIError"

\* `except Exception` of store_user
StoreUserCatches(exc) == "Exception" \in InstanceOf(exc)

\* store_user once the insert has been answered: the result dictionary, or the
\* server error FastAPI answers when the exception leaves the handler
store_user(o) ==
    IF o.kind = "inserted"
    THEN [status |-> 200, kind |-> "success", message |-> "User stored in Supabase"]
    ELSE IF StoreUserCatches(o)
         THEN [status |-> 200, kind |-> "error", message |-> "Failed to store user"]
         ELSE ServerError

\* api_routes.store_user: validation, then one insert
StoreUser ==
    /\ pc = "idle"
    /\ Len(store) < MaxInserts
    /\ \E user \in PortalUsers, o \in InsertOutcomes :
        /\ req' = [kind |-> "user", user |-> user]
        /\ IF ~CaptivePortalUserValid(user)
           THEN /\ resp' = [status |-> 422, kind |-> "error", detail |-> "validation"]
                /\ calls' = calls
                /\ store' = store
           ELSE /\ calls' = Append(calls, [svc |-> "supabase_insert", arg |-> UserRow(user),
                                           reply |-> o])
                /\ store' = Append(store, UserRow(user))
                /\ resp' = store_user(o)
    /\ endpoint' = "store_user"
    /\ pc' = "done"
    /\ UNCHANGED <<bookings, other>>

(***************************************************************************)
(* api_routes.book_event and get_available_slots                           *)
(***************************************************************************)
\* the bodies explored: EventBooking requires an integer number of attendees
EventBookings == [attendees : {IntVal(12), StrVal(<<"m", "a", "n", "y">>), Absent}]

\* request validation against EventBooking
EventBookingValid(booking) == booking.attendees.t = "int"

\* datetime.now().strftime("%Y%m%d%H%M%S") at the time of the request
Timestamps == {<<"2", "0", "2", "4", "0", "7", "0", "1", "1", "2", "0", "0", "0", "0">>,
               <<"2", "0", "2", "4", "0", "7", "0", "1", "1", "2", "0", "0", "0", "1">>}

BOOKING_PREFIX == <<"b", "o", "o", "k", "i", "n", "g", "_">>

\* the handler stores nothing and answers with a booking id made from the clock
book_event(now) ==
    [status |-> 200, kind |-> "success", message |-> "Event booked successfully",
     booking_id |-> BOOKING_PREFIX \o now]

BookEvent ==
    /\ pc = "idle"
    /\ bookings < MaxBookings
    /\ \E booking \in EventBookings, now \in Timestamps :
        /\ req' = [kind |-> "booking", booking |-> booking]
        /\ IF ~EventBookingValid(booking)
           THEN /\ resp' = [status |-> 422, kind |-> "error", detail |-> "validation"]
                /\ bookings' = bookings
           ELSE /\ resp' = book_event(now)
                /\ bookings' = bookings + 1
    /\ endpoint' = "book_event"
    /\ pc' = "done"
    /\ UNCHANGED <<calls, store, other>>

DEFAULT_DATE == <<"2", "0", "2", "4", "-", "0", "7", "-", "0", "1">>
FixedSlots == <<"09:00", "10:00", "11:00", "14:00", "15:00">>

\* the slot list with as many of its first slots taken as bookings were accepted
get_available_slots_less_bookings(date) ==
    [status |-> 200, kind |-> "slots",
     available_slots |->
        <<[date |-> IF Truthy(date) THEN date ELSE StrVal(DEFAULT_DATE),
           slots |-> SubSeq(FixedSlots, bookings + 1, Len(FixedSlots))]>>]

\* `{"date": date or "2024-07-01", "slots": [...]}`
get_available_slots(date) ==
    [status |-> 200, kind |-> "slots",
     available_slots |->
        <<[date |-> IF Truthy(date) THEN date ELSE StrVal(DEFAULT_DATE),
           slots |-> FixedSlots]>>]

\* the date query parameter: absent (None), empty, or a string
SlotDates ==
    {None, EmptyStr, StrVal(<<"2", "0", "2", "4", "-", "0", "8", "-", "1", "5">>),
     StrVal(<<"s", "o", "o", "n">>)}

AvailableSlots ==
    /\ pc = "idle"
    /\ \E date \in SlotDates :
        /\ req' = [kind |-> "slots", date |-> date]
        /\ resp' = get_available_slots(date)
    /\ endpoint' = "available_slots"
    /\ pc' = "done"
    /\ UNCHANGED <<calls, store, bookings, other>>

\* the request is over; nothing of it is kept
Finish ==
    /\ pc = "done"
    /\ endpoint' = "none"
    /\ pc' = "idle"
    /\ req' = NoRequest
    /\ calls' = <<>>
    /\ resp' = NoResponse
    /\ UNCHANGED <<store, bookings, other>>

\* The server turns from one request in flight to the other: the event loop at
\* an await, the scheduler between two worker threads.
Switch ==
    /\ endpoint' = other.endpoint
    /\ pc' = other.pc
    /\ req' = other.req
    /\ calls' = other.calls
    /\ resp' = other.resp
    /\ other' = [endpoint |-> endpoint, pc |-> pc, req |-> req, calls |-> calls,
                 resp |-> resp]
    /\ UNCHANGED <<store, bookings>>

Next ==
    \/ LoadCredentials
    \/ ConvertLink
    \/ NormalizeDate
    \/ ValidateConfig
    \/ ImageRequest
    \/ ImageUpstream
    \/ ContactRequest
    \/ ContactRelay
    \/ GetMenu
    \/ GetEvents
    \/ GetEvent
    \/ BookEmailRequest
    \/ BookEmailRelay
    \/ BackgroundLog
    \/ ProcessStops
    \/ Finish

Spec == Init /\ [][Next]_vars

\* the endpoints around the record store and the bookings, over a sequence of
\* requests
StoreNext ==
    \/ StoreUser
    \/ BookEvent
    \/ AvailableSlots
    \/ Finish

StoreSpec == Init /\ [][StoreNext]_vars

\* two requests in flight
ConcurrentNext ==
    \/ ContactRequest
    \/ ContactRelay
    \/ BookEmailRequest
    \/ BookEmailRelay
    \/ BackgroundLogConcurrently
    \/ ProcessStops
    \/ GetMenuConcurrently
    \/ GetEventsConcurrently
    \/ Finish
    \/ Switch

ConcurrentSpec == Init /\ [][ConcurrentNext]_vars

(***************************************************************************)
(* Properties.                                                             *)
(***************************************************************************)
\* a read of the menu worksheet fails at some step: no credentials, a failing
\* call, or a row the transform raises on
MenuSourceFails(source) ==
    \/ get_google_sheets_credentials(source.env).t = "none"
    \/ source.fault # "none"
    \/ transform_menu_data(source.rows).raised

EventsSourceFails(source) ==
    \/ get_google_sheets_credentials(source.env).t = "none"
    \/ source.fault # "none"

\* C1: whenever any step of a spreadsheet read fails, GET /api/menu answers 200
\* with exactly the fallback menu and GET /api/events answers 200 with exactly
\* the fallback events; neither endpoint ever answers with a server error.
C1_FallbackOnEveryFailure ==
    /\ (endpoint = "menu" /\ pc = "done") =>
          /\ resp.status = 200
          /\ MenuSourceFails(req.source) =>
                resp.kind = "menu" /\ resp.menu = get_hardcoded_menu
    /\ (endpoint = "events" /\ pc = "done") =>
          /\ resp.status = 200
          /\ EventsSourceFails(req.source) =>
                resp.kind = "events" /\ resp.events = get_hardcoded_events

\* the credentials load and every call succeeds, but a row makes the transform
\* raise, and the fallback menu with its 6 + 12 + 1 items is served
C1_Witness ==
    /\ endpoint = "menu" /\ pc = "done"
    /\ get_google_sheets_credentials(req.source.env).t # "none"
    /\ req.source.fault = "none"
    /\ transform_menu_data(req.source.rows).raised
    /\ resp.status = 200
    /\ Len(resp.menu[CAFES].items) = 6
    /\ Len(resp.menu[AUTOR].items) = 12
    /\ Len(resp.menu[PASTELERIA].items) = 1

\* a file id made of alphanumerics, hyphens and underscores only
IsToken(file_id) ==
    /\ Len(file_id) >= 1
    /\ \A i \in 1..Len(file_id) : file_id[i] \in FileIdClass

\* C2: a file id that is not such a token is answered with HTTP 400, and a file
\* id that is one is not rejected by the validation (the image host is asked).
C2_InvalidIdIsClientError ==
    (endpoint = "image" /\ pc = "done") =>
        /\ ~IsToken(req.file_id) => resp.status = 400
        /\ IsToken(req.file_id) => calls # <<>>

\* C3: the image host is asked only for file ids that are tokens (no other
\* character, a trailing newline included, reaches the URL), and for a rejected
\* file id it is not asked at all.
C3_OnlyTokensReachUpstream ==
    endpoint = "image" =>
        /\ \A i \in 1..Len(calls) :
              calls[i].svc = "drive" =>
                  /\ IsToken(req.file_id)
                  /\ calls[i].arg = DIRECT_VIEW \o req.file_id
        /\ ~FileIdMatches(req.file_id) => calls = <<>>

\* C4: when the image host answers with a status outside 200..299, the caller
\* is answered with HTTP 404.
C4_UpstreamErrorIsNotFound ==
    (/\ endpoint = "image" /\ pc = "done" /\ calls # <<>>
     /\ calls[1].reply.kind = "response"
     /\ calls[1].reply.status \notin 200..299)
        => resp.status = 404

\* C5: rewriting the result of a rewrite changes nothing, and a URL that is
\* already the direct-view URL of some identifier is returned unchanged.
C5_RewriteIdempotent ==
    (endpoint = "convert_google_drive_link" /\ pc = "done") =>
        /\ resp.again = resp.url
        /\ StartsAt(req.url, DIRECT_VIEW, 1) => resp.url = req.url

\* the capacity the claim expects: the number itself, the value of a numeric
\* string, and 0 for an empty string, any other string and a missing field
ExpectedCapacity(v) ==
    IF v.t = "int" THEN v
    ELSE IF v.t = "str" /\ IsDigits(v.s) THEN IntVal(DigitsValue(v.s))
    ELSE IntVal(0)

\* C6: every event of a successful live read has an integer capacity: the
\* value of a numeric string, and 0 for an empty, non-numeric or absent one.
C6_CapacityIsInteger ==
    (endpoint = "events" /\ pc = "done" /\ ~EventsSourceFails(req.source)) =>
        /\ Len(resp.events) = Len(req.source.rows)
        /\ \A i \in 1..Len(resp.events) :
              resp.events[i].capacity = ExpectedCapacity(req.source.rows[i].capacity)

\* a field that is absent or empty, judged after trimming whitespace
EmptyAfterTrim(v) == v.t = "absent" \/ (v.t = "str" /\ Strip(v.s) = <<>>)
\* a field that is absent or empty as it stands (an empty string, the number 0)
EmptyAsIs(v) == v.t = "absent" \/ v = EmptyStr \/ v = IntVal(0)

\* the category key names the autor bucket in any case, with any whitespace
NamesAutor(v) == v.t = "str" /\ Strip(Lower(v.s)) = AUTOR

\* the menu of the response was built from the live rows
LiveMenu == endpoint = "menu" /\ pc = "done" /\ ~MenuSourceFails(req.source)

\* the items the given rows make, in row order
ItemsOf(rows) == [i \in 1..Len(rows) |-> menu_item(rows[i])]

\* C7 as claimed: a row whose item_name or category_key is absent or empty after
\* trimming gives no item, and the autor bucket holds exactly the rows with a
\* name that is not empty after trimming and a key that names autor.
C7_OmitsEmptyAfterTrim ==
    LiveMenu =>
        /\ \A key \in MenuKeys : \A i \in 1..Len(resp.menu[key].items) :
              \E j \in 1..Len(req.source.rows) :
                  /\ menu_item(req.source.rows[j]) = resp.menu[key].items[i]
                  /\ ~EmptyAfterTrim(req.source.rows[j].item_name)
                  /\ ~EmptyAfterTrim(req.source.rows[j].category_key)
        /\ resp.menu[AUTOR].items =
              ItemsOf(SelectSeq(req.source.rows,
                                LAMBDA r : /\ ~EmptyAfterTrim(r.item_name)
                                           /\ NamesAutor(r.category_key)))

\* C7 as amended: emptiness is judged on the value as it stands, before any
\* trimming. A row whose item_name or category_key is absent or empty gives no
\* item; a whitespace-only key is not empty but names no bucket; and the autor
\* bucket holds exactly the rows with a non-empty name (a whitespace-only one
\* included) and a key that names autor.
C7_OmitsEmptyAsIs ==
    LiveMenu =>
        /\ \A key \in MenuKeys : \A i \in 1..Len(resp.menu[key].items) :
              \E j \in 1..Len(req.source.rows) :
                  /\ menu_item(req.source.rows[j]) = resp.menu[key].items[i]
                  /\ ~EmptyAsIs(req.source.rows[j].item_name)
                  /\ ~EmptyAsIs(req.source.rows[j].category_key)
                  /\ ~EmptyAfterTrim(req.source.rows[j].category_key)
        /\ resp.menu[AUTOR].items =
              ItemsOf(SelectSeq(req.source.rows,
                                LAMBDA r : /\ ~EmptyAsIs(r.item_name)
                                           /\ NamesAutor(r.category_key)))

\* a row with a whitespace-only name and the key " AUTOR<tab>" is in the autor
\* bucket, and a row with an empty name was dropped
C7_Witness ==
    /\ LiveMenu
    /\ Len(req.source.rows) = 2
    /\ req.source.rows[1].item_name = EmptyStr
    /\ req.source.rows[2].item_name = StrVal(<<" ">>)
    /\ req.source.rows[2].category_key = StrVal(<<" ", "A", "U", "T", "O", "R", "\t">>)
    /\ Len(resp.menu[AUTOR].items) = 1
    /\ resp.menu[AUTOR].items[1].name = StrVal(<<" ">>)

\* the record carries the requested id
HasId(event, event_id) == event.id.t # "absent" /\ PyEq(event.id, StrVal(event_id))

\* C8: GET /api/events/{id} returns a record of the list only if it is the
\* first one with the requested id, and when no record has that id it answers
\* status 200 with the not-found body paired with 404.
C8_LookupByIdOrNotFoundBody ==
    (endpoint = "event" /\ pc = "done") =>
        LET L == req.events.value
        IN /\ resp.kind = "event" =>
                \E i \in 1..Len(L) :
                    /\ L[i] = resp.event
                    /\ HasId(L[i], req.event_id)
                    /\ \A j \in 1..(i - 1) : ~HasId(L[j], req.event_id)
           /\ (\A i \in 1..Len(L) : ~HasId(L[i], req.event_id)) =>
                /\ resp.status = 200
                /\ resp.kind = "not_found"
                /\ resp.body = <<[detail |-> "Event not found"], 404>>

\* C9: a contact submission whose email is not a valid address is answered
\* with a client error by request validation, and the mail relay is never
\* called for it.
C9_InvalidEmailNeverReachesRelay ==
    (endpoint = "contact" /\ ~EmailStrValid(req.email)) =>
        /\ pc = "done"
        /\ resp.status = 422
        /\ calls = <<>>

\* "a@b" (no period in the domain) was rejected
C9_Witness ==
    /\ endpoint = "contact" /\ pc = "done"
    /\ req.email = <<"a", "@", "b">>
    /\ resp.status = 422
    /\ calls = <<>>

\* C10: the response to POST /api/book-event-email does not wait for the mail
\* relay (it exists while the relay has not answered), and it is the success
\* result whatever the relay does.
C10_BookingResponseIgnoresRelay ==
    endpoint = "book_event_email" =>
        /\ (\E i \in 1..Len(calls) : calls[i].svc = "mail" /\ calls[i].reply = Pending)
              => resp # NoResponse
        /\ resp # NoResponse => resp.kind = "success"

\* C11: POST /api/contact answers only once the relay has answered; a failed
\* send gives status 200 with the result "error" and a message, a successful
\* send the result "success"; the handler never raises.
C11_ContactWaitsAndNeverRaises ==
    (endpoint = "contact" /\ FieldValid(ContactFormEmailType, req.email)) =>
        /\ Len(calls) = 1
        /\ (calls[1].reply = Pending) = (resp = NoResponse)
        /\ resp # NoResponse =>
              /\ resp.status = 200
              /\ resp.kind = IF calls[1].reply.kind = "sent" THEN "success" ELSE "error"
              /\ resp.message # ""

\* the relay refused the login and the handler answered with the error result
C11_Witness ==
    /\ endpoint = "contact" /\ pc = "done"
    /\ Len(calls) = 1
    /\ calls[1].reply = [kind |-> "raise", class |-> "SMTPAuthenticationError"]
    /\ resp.status = 200
    /\ resp.kind = "error"

\* C12: every valid submission to POST /api/store-user makes exactly one call,
\* an insert of the submitted row, which the record store receives whatever it
\* already holds (no lookup, no retry); the answer is status 200 with the result
\* "success" when the insert succeeded and "error" when it failed.
C12_OneInsertPerSubmission ==
    [][(endpoint' = "store_user" /\ pc = "idle" /\ CaptivePortalUserValid(req'.user)) =>
          /\ Len(calls') = 1
          /\ calls'[1].svc = "supabase_insert"
          /\ calls'[1].arg = UserRow(req'.user)
          /\ store' = Append(store, UserRow(req'.user))
          /\ resp'.status = 200
          /\ resp'.kind = IF calls'[1].reply.kind = "inserted" THEN "success" ELSE "error"]_vars

\* the same row was submitted twice and the record store received it twice; the
\* second insert failed and was answered with the error result
C12_Witness ==
    /\ endpoint = "store_user" /\ pc = "done"
    /\ Len(store) = 2
    /\ store[1] = store[2]
    /\ Len(calls) = 1
    /\ calls[1].reply.kind = "raise"
    /\ resp.kind = "error"

\* C18: GET /api/available-slots answers, whatever was booked before, with one
\* entry holding the five fixed slots and the date of the query, or 2024-07-01
\* when the query has no date or an empty one.
C18_SlotsAreFixed ==
    (endpoint = "available_slots" /\ pc = "done") =>
        /\ resp.status = 200
        /\ Len(resp.available_slots) = 1
        /\ resp.available_slots[1].slots = <<"09:00", "10:00", "11:00", "14:00", "15:00">>
        /\ resp.available_slots[1].date =
              IF req.date \in {None, EmptyStr}
              THEN StrVal(<<"2", "0", "2", "4", "-", "0", "7", "-", "0", "1">>)
              ELSE req.date

\* two bookings were accepted and the slots are asked for without a date
C18_Witness ==
    /\ endpoint = "available_slots" /\ pc = "done"
    /\ bookings = 2
    /\ req.date = None
    /\ Len(resp.available_slots[1].slots) = 5

\* a complete ISO-8601 representation: a month, a date, or a date followed by
\* "T", a time and possibly "Z"
ValidIso8601(s) ==
    \/ IsIsoMonth(s)
    \/ IsIsoDate(s)
    \/ /\ Len(s) > 11
       /\ IsIsoDate(SubSeq(s, 1, 10))
       /\ s[11] = "T"
       /\ IsIsoTime(SubSeq(s, 12, IF s[Len(s)] = "Z" THEN Len(s) - 1 ELSE Len(s)))

\* a timestamp: a date, "T", a time with seconds, and possibly the offset of UTC
IsTimestamp(s) ==
    /\ Len(s) \in {19, 25}
    /\ IsIsoDate(SubSeq(s, 1, 10))
    /\ s[11] = "T"
    /\ IsIsoTime(SubSeq(s, 12, 19))
    /\ Len(s) = 25 => SubSeq(s, 20, 25) = <<"+", "0", "0", ":", "0", "0">>

\* the instant an ISO-8601 string denotes, read digit by digit: what a reduced
\* representation leaves out is the start of the period it names (the first
\* day of the month, midnight)
IsoValue(s) ==
    LET field(i, j, default) ==
            IF Len(s) >= j /\ IsDigits(SubSeq(s, i, j)) THEN DigitsValue(SubSeq(s, i, j))
            ELSE default
    IN [year |-> field(1, 4, 0), month |-> field(6, 7, 1), day |-> field(9, 10, 1),
        hour |-> field(12, 13, 0), minute |-> field(15, 16, 0), second |-> field(18, 19, 0),
        utc |-> Len(s) > 11 /\ (s[Len(s)] = "Z" \/ Len(s) = 25)]

\* C13: normalize_event_date gives, for a valid ISO-8601 string, a timestamp
\* that denotes the same instant, and for a string that does not parse the
\* string itself.
C13_NormalizeKeepsValue ==
    (endpoint = "normalize_event_date" /\ pc = "done") =>
        /\ ValidIso8601(req.date_str) =>
              /\ IsTimestamp(resp.value)
              /\ IsoValue(resp.value) = IsoValue(req.date_str)
        /\ ~ParseDate(req.date_str, req.today).ok => resp.value = req.date_str

\* the tags of a tag field read one character at a time: `cur` is the tag being
\* read, without the whitespace before it; `gap` is the whitespace read after
\* it, which belongs to the tag only if another character of the tag follows; a
\* comma or the end of the field closes the tag, and an empty one is dropped
RECURSIVE TagScan(_, _, _, _)
TagScan(s, cur, gap, out) ==
    LET closed == IF cur = <<>> THEN out ELSE Append(out, cur)
    IN IF s = <<>> THEN closed
       ELSE IF Head(s) = "," THEN TagScan(Tail(s), <<>>, <<>>, closed)
       ELSE IF Head(s) \in Whitespace
            THEN TagScan(Tail(s), cur, IF cur = <<>> THEN <<>> ELSE Append(gap, Head(s)), out)
            ELSE TagScan(Tail(s), cur \o gap \o <<Head(s)>>, <<>>, out)

\* the tags the claim expects of a tag field
ExpectedTags(v) == IF v.t = "str" THEN TagScan(v.s, <<>>, <<>>, <<>>) ELSE <<>>

\* C14: the tags of every item of a live menu are the comma-separated tokens of
\* its row's tag field, trimmed, without the empty ones, in order; an absent or
\* empty tag field gives no tags.
C14_TagsAreTrimmedTokens ==
    LiveMenu =>
        \A key \in MenuKeys : \A i \in 1..Len(resp.menu[key].items) :
            \E j \in 1..Len(req.source.rows) :
                /\ resp.menu[key].items[i].id = GetD(req.source.rows[j], "item_id", EmptyStr)
                /\ resp.menu[key].items[i].name = req.source.rows[j].item_name
                /\ resp.menu[key].items[i].tags = ExpectedTags(req.source.rows[j].item_tags)

\* the tag field "Hot, Cold ," gave the tags Hot and Cold
C14_Witness ==
    /\ LiveMenu
    /\ Len(req.source.rows) = 1
    /\ req.source.rows[1].item_tags =
          StrVal(<<"H", "o", "t", ",", " ", "C", "o", "l", "d", " ", ",">>)
    /\ Len(resp.menu[AUTOR].items) = 1
    /\ resp.menu[AUTOR].items[1].tags = << <<"H", "o", "t">>, <<"C", "o", "l", "d">> >>

\* C20: every item of a live menu has a non-empty id and a non-empty name.
C20_ItemsHaveIdAndName ==
    LiveMenu =>
        \A key \in MenuKeys : \A i \in 1..Len(resp.menu[key].items) :
            /\ Truthy(resp.menu[key].items[i].id)
            /\ Truthy(resp.menu[key].items[i].name)

\* C15: when the request to the image host fails, a timeout (of any kind) is
\* answered with 504, any other failure of the transport with 503, and any
\* other exception with 500.
C15_UpstreamFailureStatus ==
    (/\ endpoint = "image" /\ pc = "done" /\ calls # <<>>
     /\ calls[1].reply.kind = "raise")
        => resp.status =
              CASE calls[1].reply.class \in {"TimeoutException", "ReadTimeout"} -> 504
                [] calls[1].reply.class \in {"RequestError", "ConnectError"} -> 503
                [] OTHER -> 500

\* a read timeout, which is also a failure of the transport, was answered 504
C15_Witness ==
    /\ endpoint = "image" /\ pc = "done"
    /\ calls # <<>>
    /\ calls[1].reply = [kind |-> "raise", class |-> "ReadTimeout"]
    /\ resp.status = 504

\* C16: a successful answer of the image proxy has a content type that begins
\* with "image/": the one of the image host when that begins with "image/",
\* image/jpeg otherwise; and it carries Cache-Control: public, max-age=3600 and
\* Access-Control-Allow-Origin: *.
C16_SuccessIsAnImage ==
    (endpoint = "image" /\ pc = "done" /\ resp.status = 200) =>
        LET upstream == calls[1].reply.ctype
            image == upstream.t = "str" /\ Len(upstream.s) >= 6
                     /\ SubSeq(upstream.s, 1, 6) = <<"i", "m", "a", "g", "e", "/">>
        IN /\ Len(resp.media_type) >= 6
           /\ SubSeq(resp.media_type, 1, 6) = <<"i", "m", "a", "g", "e", "/">>
           /\ resp.media_type =
                 IF image THEN upstream.s
                 ELSE <<"i", "m", "a", "g", "e", "/", "j", "p", "e", "g">>
           /\ resp.cache_control = "public, max-age=3600"
           /\ resp.allow_origin = "*"

\* the image host answered 200 with text/html and the caller got image/jpeg
C16_Witness ==
    /\ endpoint = "image" /\ pc = "done"
    /\ resp.status = 200
    /\ calls[1].reply.ctype = StrVal(<<"t", "e", "x", "t", "/", "h", "t", "m", "l">>)
    /\ resp.media_type = <<"i", "m", "a", "g", "e", "/", "j", "p", "e", "g">>

\* C17: validate_config raises exactly when one of the seven required
\* variables is unset or empty; the one error names every such variable, once;
\* and when none is missing the result is True.
C17_OneErrorNamesAllMissing ==
    (endpoint = "validate_config" /\ pc = "done") =>
        LET required == {"MAIL_USERNAME", "MAIL_PASSWORD", "MAIL_FROM", "SUPABASE_URL",
                         "SUPABASE_KEY", "GOOGLE_CREDENTIALS_JSON", "GOOGLE_SHEET_ID"}
            missing == {v \in required : req.cls[v] \in {None, EmptyStr}}
            named == resp.result.message.joined
        IN /\ resp.result.raised = (missing # {})
           /\ resp.result.raised =>
                 /\ {named[i] : i \in 1..Len(named)} = missing
                 /\ Len(named) = Cardinality(missing)
           /\ ~resp.result.raised => resp.result.value = TRUE

\* MAIL_FROM is empty and GOOGLE_SHEET_ID is unset, and the error names both
C17_Witness ==
    /\ endpoint = "validate_config" /\ pc = "done"
    /\ req.cls["MAIL_FROM"] = EmptyStr
    /\ req.cls["GOOGLE_SHEET_ID"] = None
    /\ resp.result.raised
    /\ resp.result.message.joined = <<"MAIL_FROM", "GOOGLE_SHEET_ID">>

\* the response a request gets when it is the only one handled: computed from
\* what it was called with and from what the external services answered to its
\* own calls
AloneResponse(ctx) ==
    CASE ctx.endpoint = "contact" ->
            IF ~FieldValid(ContactFormEmailType, ctx.req.email)
            THEN [status |-> 422, kind |-> "error", detail |-> "validation"]
            ELSE send_contact_email(ctx.calls[1].reply)
      [] ctx.endpoint = "book_event_email" -> BookingResult(ctx.calls[1].reply)
      [] ctx.endpoint = "menu" ->
            [status |-> 200, kind |-> "menu", menu |-> get_menu_data(ctx.req.source).value,
             obj |-> ctx.resp.obj]
      [] ctx.endpoint = "events" ->
            [status |-> 200, kind |-> "events",
             events |-> get_events_data(ctx.req.source).value, obj |-> ctx.resp.obj]

\* the request that is running, as a context
Running == [endpoint |-> endpoint, pc |-> pc, req |-> req, calls |-> calls, resp |-> resp]

LiveEvents == endpoint = "events" /\ pc = "done" /\ ~EventsSourceFails(req.source)

\* C21: when the live read succeeds, the events served are one per source row
\* and in source order: the i-th event carries the id of the i-th row, whatever
\* the row's date, capacity and image, and rows with the same id are all there.
C21_OneEventPerRowInOrder ==
    LiveEvents =>
        /\ Len(resp.events) = Len(req.source.rows)
        /\ \A i \in 1..Len(req.source.rows) :
              /\ resp.events[i].id = req.source.rows[i].id
              /\ ~DateParses(PyStr(req.source.rows[i].date)) /\ Truthy(req.source.rows[i].date)
                    => resp.events[i].date = req.source.rows[i].date

\* two rows with the same id, the first with a date that does not parse and a
\* capacity that is no number, the second with a drive link as image: both are
\* served, in that order
C21_Witness ==
    /\ LiveEvents
    /\ Len(req.source.rows) = 2
    /\ req.source.rows[1].id = req.source.rows[2].id
    /\ req.source.rows[1].date = StrVal(<<"s", "o", "o", "n">>)
    /\ req.source.rows[1].capacity = StrVal(<<"a", "b", "c">>)
    /\ req.source.rows[2].image = StrVal(DRIVE_SHARE)
    /\ req.source.rows[2].date # req.source.rows[1].date
    /\ Len(resp.events) = 2
    /\ resp.events[1].date = StrVal(<<"s", "o", "o", "n">>)
    /\ resp.events[2].date # resp.events[1].date

\* C22: a menu built from the live rows has exactly the three category keys
\* "cafes y bebidas", "autor" and "pasteleria", each with its fixed title, also
\* when the worksheet is empty or a category received no row; and two items of
\* one category come from two rows that stand in the same order in the worksheet.
C22_ThreeFixedCategoriesInRowOrder ==
    LiveMenu =>
        /\ DOMAIN resp.menu = {<<"c", "a", "f", "e", "s", " ", "y", " ",
                                 "b", "e", "b", "i", "d", "a", "s">>,
                               <<"a", "u", "t", "o", "r">>,
                               <<"p", "a", "s", "t", "e", "l", "e", "r", "i", "a">>}
        /\ resp.menu[CAFES].title = "Cafes y Bebidas"
        /\ resp.menu[AUTOR].title = "Cocina de Autor"
        /\ resp.menu[PASTELERIA].title = "Pastelería"
        /\ \A key \in MenuKeys :
              LET items == resp.menu[key].items
              IN /\ Len(items) <= Len(req.source.rows)
                 /\ \A i, j \in 1..Len(items) : i < j =>
                        \E a, b \in 1..Len(req.source.rows) :
                            /\ a < b
                            /\ menu_item(req.source.rows[a]) = items[i]
                            /\ menu_item(req.source.rows[b]) = items[j]

\* two rows of the first category, "Pan" before "Te", and none of the other
\* two: the first bucket holds "Pan" then "Te", the other two are there, empty
C22_Witness ==
    /\ LiveMenu
    /\ Len(req.source.rows) = 2
    /\ req.source.rows[1].item_name = StrVal(<<"P", "a", "n">>)
    /\ req.source.rows[2].item_name = StrVal(<<"T", "e">>)
    /\ Len(resp.menu[CAFES].items) = 2
    /\ resp.menu[CAFES].items[1].name = StrVal(<<"P", "a", "n">>)
    /\ resp.menu[CAFES].items[2].name = StrVal(<<"T", "e">>)
    /\ resp.menu[AUTOR].items = <<>>
    /\ resp.menu[PASTELERIA].items = <<>>
    /\ resp.menu[PASTELERIA].title = "Pastelería"

\* the worksheet was read and every category, tag and image cell holds text
TextRowsRead ==
    /\ endpoint = "menu" /\ pc = "done"
    /\ get_google_sheets_credentials(req.source.env).t # "none"
    /\ req.source.fault = "none"
    /\ \A i \in 1..Len(req.source.rows) :
          /\ req.source.rows[i].category_key.t = "str"
          /\ req.source.rows[i].item_tags.t \in {"str", "absent"}
          /\ req.source.rows[i].item_image.t \in {"str", "absent"}

\* the row is not skipped and its trimmed, lower-cased key is the given one
KeyIs(row, key) ==
    /\ ~EmptyAsIs(row.item_name)
    /\ ~EmptyAsIs(row.category_key)
    /\ Strip(Lower(row.category_key.s)) = key

\* the row is not skipped and its trimmed, lower-cased key is none of the three
UnknownCategory(row) ==
    /\ ~EmptyAsIs(row.item_name)
    /\ ~EmptyAsIs(row.category_key)
    /\ \A key \in MenuKeys : Strip(Lower(row.category_key.s)) # key

\* C23: a row whose trimmed, lower-cased category key is none of the three
\* known keys raises nothing (the live menu is served with status 200) and is
\* in no bucket; each bucket holds, in row order, exactly the rows whose key
\* equals the bucket's key; and the menu is the one the worksheet gives with
\* the rows of unknown category taken out.
C23_UnknownCategoryOmitted ==
    TextRowsRead =>
        /\ resp.status = 200 /\ resp.kind = "menu"
        /\ DOMAIN resp.menu = MenuKeys
        /\ \A key \in MenuKeys :
              resp.menu[key].items =
                  ItemsOf(SelectSeq(req.source.rows, LAMBDA r : KeyIs(r, key)))
        /\ resp.menu =
              transform_menu_data(SelectSeq(req.source.rows,
                                            LAMBDA r : ~UnknownCategory(r))).value

\* a row with the key "cafes" (a part of a known key) before a row with the
\* key "autor": the menu is live, its first bucket is empty and the autor
\* bucket holds the second row
C23_Witness ==
    /\ TextRowsRead
    /\ Len(req.source.rows) = 2
    /\ req.source.rows[1].category_key = StrVal(<<"c", "a", "f", "e", "s">>)
    /\ req.source.rows[1].item_name = StrVal(<<"P", "a", "n">>)
    /\ req.source.rows[2].category_key = StrVal(AUTOR)
    /\ resp.status = 200
    /\ resp.menu[CAFES].items = <<>>
    /\ Len(resp.menu[AUTOR].items) = 1
    /\ resp.menu[AUTOR].items[1].name = req.source.rows[2].item_name

\* the identifier the claim describes: what follows the first marker, up to
\* the next separator (to the end when there is none)
IdentifierAfter(url, marker, separator) == SplitFirst(AfterFirst(url, marker), separator)

\* C24: convert_google_drive_link raises nothing and calls no service; for an
\* input with "/file/d/" the identifier is what follows the marker up to the
\* next "/", otherwise for an input with "id=" it is what follows the first
\* "id=" up to the next "&", and the result is the direct-view URL of the
\* identifier; an input with neither marker is returned as it is.
C24_IdentifierUpToNextSeparator ==
    (endpoint = "convert_google_drive_link" /\ pc = "done") =>
        /\ calls = <<>>
        /\ resp.url =
              IF Contains(req.url, FILE_D)
              THEN DIRECT_VIEW \o IdentifierAfter(req.url, FILE_D, SLASH)
              ELSE IF Contains(req.url, ID_EQ)
                   THEN DIRECT_VIEW \o IdentifierAfter(req.url, ID_EQ, AMP)
                   ELSE req.url

\* the image the claim expects for a text cell: the rewritten link when the
\* text holds the drive host, else the text itself
ExpectedImage(v) ==
    IF v.t = "str" /\ Contains(v.s, DRIVE_HOST)
    THEN StrVal(convert_google_drive_link(v.s))
    ELSE v

\* C25: in the items of a live menu and in the events of a live list, an image
\* that is text is the rewritten link when the text contains
\* "drive.google.com" and is the text itself when it does not, also when it
\* contains "id=" or "/file/d/"; an item without an image cell has the image "".
C25_ImageRewrittenOnlyForDriveHost ==
    /\ LiveMenu =>
          \A key \in MenuKeys :
              LET kept == SelectSeq(req.source.rows, LAMBDA r : KeyIs(r, key))
              IN /\ Len(resp.menu[key].items) = Len(kept)
                 /\ \A i \in 1..Len(kept) :
                        resp.menu[key].items[i].image =
                            IF kept[i].item_image.t = "absent" THEN EmptyStr
                            ELSE ExpectedImage(kept[i].item_image)
    /\ LiveEvents =>
          /\ Len(resp.events) = Len(req.source.rows)
          /\ \A i \in 1..Len(req.source.rows) :
                resp.events[i].image = ExpectedImage(req.source.rows[i].image)

\* an event whose image is a share link of the drive and one whose image is
\* "/i?id=7": the first is served with the direct-view URL of "Ab", the second
\* with its image as it was
C25_Witness ==
    /\ LiveEvents
    /\ Len(req.source.rows) = 2
    /\ req.source.rows[1].image = StrVal(DRIVE_SHARE)
    /\ req.source.rows[2].image = StrVal(<<"/", "i", "?", "i", "d", "=", "7">>)
    /\ Len(resp.events) = 2
    /\ resp.events[1].image = StrVal(DIRECT_VIEW \o <<"A", "b">>)
    /\ resp.events[2].image = StrVal(<<"/", "i", "?", "i", "d", "=", "7">>)

\* C26: when the blob is set and parses, get_google_sheets_credentials returns
\* the parsed blob at once: the three required fields are not checked and no
\* individual variable is read, whatever the individual variables hold; the
\* bundle is assembled from the individual variables only when the blob is not
\* set, empty, or does not parse.
C26_BlobReturnedUnchecked ==
    (endpoint = "get_google_sheets_credentials" /\ pc = "done") =>
        /\ req.env.blob = "json" =>
              /\ resp.value.t = "info" /\ resp.value.from = "blob"
              /\ ~resp.value.checked
              /\ resp.value.read = {}
        /\ (resp.value.from = "fields" \/ resp.value.read # {} \/ resp.value.checked) =>
              req.env.blob \in {"absent", "empty", "invalid"}

\* the blob parses while none of the individual variables is set, and the
\* bundle of the blob is returned
C26_Witness ==
    /\ endpoint = "get_google_sheets_credentials" /\ pc = "done"
    /\ req.env.blob = "json"
    /\ \A field \in RequiredFields : req.env.fields[field] = "absent"
    /\ resp.value.t = "info"
    /\ resp.value.from = "blob"

\* the blob is not set, empty or does not parse, and one of the three required
\* variables is not set or empty
NoCredentials(env) ==
    /\ env.blob \in {"absent", "empty", "invalid"}
    /\ \E field \in {"project_id", "private_key", "client_email"} :
          env.fields[field] \in {"absent", "empty"}

\* C27: when the blob is absent or unparsable and one of project id, private
\* key and client email is missing or empty, get_google_sheets_credentials
\* returns None; a read of the menu or the events under such an environment
\* makes no call to the spreadsheet service, and neither does the background
\* log of a booking.
C27_NoCredentialsNoCall ==
    /\ (endpoint = "get_google_sheets_credentials" /\ pc = "done" /\ NoCredentials(req.env))
          => resp.value.t = "none"
    /\ (endpoint \in {"menu", "events", "event"} /\ pc = "done"
        /\ NoCredentials(req.source.env))
          => calls = <<>>
    /\ (endpoint = "book_event_email" /\ pc = "done" /\ req.log # NoLog
        /\ NoCredentials(req.log.env))
          => \A i \in 1..Len(calls) : calls[i].svc # "sheets_append"

\* the booking sheet is configured, the blob does not parse and the private
\* key is empty: the background log has run and the only call of the request
\* is the one to the mail relay
C27_Witness ==
    /\ endpoint = "book_event_email" /\ pc = "done"
    /\ req.log # NoLog
    /\ req.log.sheet_id
    /\ req.log.fault = "none"
    /\ req.log.env.blob = "invalid"
    /\ req.log.env.fields["private_key"] = "empty"
    /\ req.log.env.fields["project_id"] = "set"
    /\ Len(calls) = 1
    /\ calls[1].svc = "mail"

\* the calls that append a row to the booking sheet
AppendCalls(cs) == {i \in 1..Len(cs) : cs[i].svc = "sheets_append"}

\* one step of a request to POST /api/book-event-email
C28_Step ==
    (endpoint = "book_event_email" /\ endpoint' = "book_event_email") =>
        \* the log runs only once the response exists
        /\ (req'.log # req.log \/ AppendCalls(calls') # AppendCalls(calls))
              => resp # NoResponse
        \* a response, once produced, is the response: the log, whether it
        \* appends, fails or is lost, leaves it as it is
        /\ resp # NoResponse => resp' = resp
        \* one row at most
        /\ Cardinality(AppendCalls(calls')) <= 1
        \* the process stops: the request ends without the log and without a row
        /\ (pc = "background" /\ pc' = "done" /\ req'.log = NoLog)
              => AppendCalls(calls') = {}

\* C28: the audit-log write of POST /api/book-event-email starts only after the
\* handler has produced its response; whether it succeeds or fails, the
\* response stays what it was and nothing is raised; a request appends at most
\* one row; and no row is appended when the process stops before the
\* background task has run.
C28_AuditLogIsBackgroundWork == [][C28_Step]_vars

\* the background log has run and its append failed: the response is the one
\* the handler produced, and the one append is the only one
C28_Witness ==
    /\ endpoint = "book_event_email" /\ pc = "done"
    /\ req.log # NoLog
    /\ req.log.fault = "append_row"
    /\ Len(calls) = 2
    /\ calls[2].svc = "sheets_append"
    /\ calls[2].reply.kind = "raise"
    /\ resp.status = 200

\* the row is not skipped and holds a number where the transform needs text:
\* as category key, or as a tag or image cell other than 0
BreaksTransform(row) ==
    /\ ~EmptyAsIs(row.item_name)
    /\ ~EmptyAsIs(row.category_key)
    /\ \/ row.category_key.t = "int"
       \/ row.item_tags.t = "int" /\ row.item_tags.n # 0
       \/ row.item_image.t = "int" /\ row.item_image.n # 0

\* the credentials loaded and every call of the read succeeded
ReadSucceeded(source) ==
    /\ ~NoCredentials(source.env)
    /\ source.fault = "none"

\* C29: the menu served is either the fallback menu or the transform of all
\* the live rows (every bucket holds the items of all the rows of its key),
\* and it is the fallback menu as soon as one row makes the transform raise;
\* the events served are either the fallback list or one event per live row.
C29_AllOrNothing ==
    /\ (endpoint = "menu" /\ pc = "done") =>
          /\ \/ resp.menu = get_hardcoded_menu
             \/ /\ ReadSucceeded(req.source)
                /\ \A i \in 1..Len(req.source.rows) : ~BreaksTransform(req.source.rows[i])
                /\ \A key \in MenuKeys :
                      resp.menu[key].items =
                          ItemsOf(SelectSeq(req.source.rows, LAMBDA r : KeyIs(r, key)))
          /\ (\E i \in 1..Len(req.source.rows) : BreaksTransform(req.source.rows[i]))
                => resp.menu = get_hardcoded_menu
    /\ (endpoint = "events" /\ pc = "done") =>
          \/ resp.events = get_hardcoded_events
          \/ /\ ReadSucceeded(req.source)
             /\ Len(resp.events) = Len(req.source.rows)
             /\ \A i \in 1..Len(req.source.rows) : resp.events[i].id = req.source.rows[i].id

\* a worksheet read without failure whose first row is a sound row of the
\* autor category and whose second row has the number 5 as category key: the
\* menu served is the fallback menu, without the item of the first row
C29_Witness ==
    /\ endpoint = "menu" /\ pc = "done"
    /\ ReadSucceeded(req.source)
    /\ Len(req.source.rows) = 2
    /\ KeyIs(req.source.rows[1], AUTOR)
    /\ req.source.rows[2].category_key = IntVal(5)
    /\ BreaksTransform(req.source.rows[2])
    /\ resp.menu = get_hardcoded_menu
    /\ \A i \in 1..Len(resp.menu[AUTOR].items) :
          resp.menu[AUTOR].items[i] # menu_item(req.source.rows[1])

\* C30: GET /api/events/{id} never ends in an unhandled exception: for every
\* list get_events_data can return, rows without an "id" column included, the
\* answer is a record of the list or the not-found body.
C30_EventLookupNeverRaises ==
    (endpoint = "event" /\ pc = "done") =>
        /\ resp # ServerError
        /\ resp.kind \in {"event", "not_found"}
====
